---- MODULE Spec2Model ----
(***************************************************************************)
(* A state-machine model of the CGCS coordination kernel:                  *)
(*   RoleManager   (src/cgcs_core.py)      role activation and capacity    *)
(*   StressEngine  (src/cgcs_core.py)      per-role continuous stress      *)
(*   LoopGuard     (src/loop_guard.py)     windowed repetition scoring     *)
(*   ConsentManager(src/cgcs/consent.py)   the consent ledger              *)
(*   FatigueTracker(src/cgcs/fatigue.py)   per-agent energy and rest       *)
(*   Agent         (src/cgcs/agent.py)     bounded roles of an agent       *)
(*   Coordinator   (src/cgcs/coordinator.py) admission and circuit breaker *)
(*   MemoryStore   (src/cgcs/memory.py)    cue-indexed memories            *)
(*   DualMemory    (src/cgcs_core.py)      thread and opt-in anchors       *)
(*   HardwareSafetyController (src/src/hardware/safety_controller.py)      *)
(*                                         emergency stop and watchdog     *)
(*                                                                         *)
(* Numbers: loads, costs and battery levels are in hundredths (0.35 is 35);*)
(* the fatigue clock counts minutes; the loop-guard clock counts seconds.  *)
(***************************************************************************)
EXTENDS Integers, Sequences, FiniteSets, TLC

VARIABLES
    \* ---- RoleManager
    active,        \* RoleManager.active : set of role keys
    load,          \* RoleManager.load, in hundredths
    actResult,     \* the last RoleManager call: what it was given and returned
    \* ---- two threads calling RoleManager.activate on one instance
    tpc,           \* per thread: the position inside activate
    tcall,         \* per thread: the arguments of its call
    treasons,      \* per thread: the local list `reasons`
    tload,         \* per thread: the value of self.load read by `+=`
    tok,           \* per thread: the returned flag
    load0,         \* self.load when the first thread entered activate
    \* ---- ConsentManager
    consents,      \* ConsentManager._consents : request id -> record
    granted_scopes,\* ConsentManager._granted_scopes : set of requester:kind
    cnow,          \* datetime.now() as the ledger sees it
    everRequested, \* history: the (requester, kind) pairs ever requested
    cResult,       \* the last ConsentManager call: what it was given and returned
    \* ---- LoopGuard
    events,        \* LoopGuard.events : deque of LoopEvent(t, key, intensity)
    cooldown_until,\* LoopGuard.cooldown_until, in seconds
    last_reason,   \* LoopGuard.last_reason
    lnow,          \* the `now` of the next observe call, in seconds
    nObs,          \* number of observe calls made
    obs,           \* the last observe call: its time, what it computed and returned
    hiAt,          \* history: time of the latest observe that returned risk >= 0.75
    trigAt,        \* history: time of the latest observe that started a cooldown
    \* ---- FatigueTracker
    fconfig,       \* FatigueTracker(energy_cost_per_action, max_actions_before_rest)
    fstates,       \* FatigueTracker._states : agent id -> FatigueState
    fnow,          \* datetime.now() as the tracker sees it, in minutes
    fResult,       \* the last call made on the tracker itself: what it was given and returned
    restOpen,      \* history: per agent, when the rest it has not yet resumed from started
    \* ---- StressEngine
    sigma,         \* StressEngine.state[k].sigma, in thousandths
    nSteps,        \* how many times step has run
    \* ---- Coordinator
    agents,             \* Coordinator._agents : agent id -> the Agent registered under it
    action_history,     \* Coordinator._action_history : deque of (agent_id, action)
    escalation_levels,  \* Coordinator._escalation_levels
    circuit_breakers,   \* Coordinator._circuit_breakers
    nAppends,           \* how many records have been appended to the history
    coResult,           \* the last Coordinator call: what it was given and returned
    tripped,            \* history: agents whose breaker tripped and was not reset since
    \* ---- MemoryStore
    mwired,        \* whether MemoryStore was built with the ConsentManager
    memories,      \* MemoryStore._memories : memory id -> Memory
    cues,          \* MemoryStore._cues : cue id -> MemoryCue
    cue_index,     \* MemoryStore._cue_index : cue id -> memory ids
    mResult,       \* the last MemoryStore call: what it was given and returned
    forgotten,     \* history: memory ids forgotten and not stored again since
    \* ---- DualMemory
    thread,        \* DualMemory.thread : deque of turns
    index,         \* DualMemory.index : list of AnchorReceipt
    dmResult,      \* the last DualMemory call: what it was given and returned
    \* ---- HardwareSafetyController
    hstate,        \* HardwareSafetyController.state
    watchdog_active,\* HardwareSafetyController._watchdog_active
    beat_age,      \* time.time() - self._last_heartbeat, in ticks, saturating
    wpc,           \* the watchdog thread's position in _watchdog_loop
    mpc,           \* the calling thread's position: idle, or inside reset
    hResult,       \* the last controller call: what it returned
    silence,       \* history: ticks since the last heartbeat() call, saturating
    everEmergency, \* history: the state has been EMERGENCY
    callerTriggered,\* history: a caller has called trigger_warning or trigger_emergency_stop
    untimely,      \* history: some interval without heartbeat reached the timeout
    \* ---- Agent built with a ConsentManager
    wagent,        \* Agent._state : is_active, current_role, action_history
    aResult        \* the last call made on that Agent: what it was given and returned

roleVars == <<active, load, actResult>>
threadVars == <<tpc, tcall, treasons, tload, tok, load0>>
consentVars == <<consents, granted_scopes, cnow, everRequested, cResult>>
loopVars == <<events, cooldown_until, last_reason, lnow, nObs, obs, hiAt, trigAt>>
fatigueVars == <<fconfig, fstates, fnow, fResult, restOpen>>
stressVars == <<sigma, nSteps>>
coordVars == <<agents, action_history, escalation_levels, circuit_breakers,
               nAppends, coResult, tripped>>
memoryVars == <<mwired, memories, cues, cue_index, mResult, forgotten>>
dualVars == <<thread, index, dmResult>>
hwVars == <<hstate, watchdog_active, beat_age, wpc, mpc, hResult, silence,
            everEmergency, callerTriggered, untimely>>
agentVars == <<wagent, aResult>>
vars == <<roleVars, threadVars, consentVars, loopVars, fatigueVars, stressVars, coordVars,
          memoryVars, dualVars, hwVars, agentVars>>

\* what the actions of one component leave alone
OthersOfRoles == <<consentVars, loopVars, fatigueVars, stressVars, coordVars, memoryVars, dualVars, hwVars, agentVars>>
OthersOfConsent == <<roleVars, threadVars, loopVars, fatigueVars, stressVars, coordVars, memoryVars, dualVars, hwVars, agentVars>>
OthersOfLoop == <<roleVars, threadVars, consentVars, fatigueVars, stressVars, coordVars, memoryVars, dualVars, hwVars, agentVars>>
OthersOfFatigue == <<roleVars, threadVars, consentVars, loopVars, stressVars, coordVars, memoryVars, dualVars, hwVars, agentVars>>
OthersOfCoord == <<roleVars, threadVars, consentVars, loopVars, stressVars, memoryVars, dualVars, hwVars, agentVars>>
OthersOfMemory == <<roleVars, threadVars, loopVars, fatigueVars, stressVars, coordVars, dualVars, hwVars, agentVars>>
OthersOfDual == <<roleVars, threadVars, consentVars, loopVars, fatigueVars, stressVars,
                 coordVars, memoryVars, hwVars, agentVars>>
OthersOfHardware == <<roleVars, threadVars, consentVars, loopVars, fatigueVars, stressVars,
                     coordVars, memoryVars, dualVars, agentVars>>
OthersOfAgent == <<roleVars, threadVars, loopVars, fatigueVars, stressVars, coordVars, memoryVars, dualVars, hwVars>>
OthersOfStress == <<roleVars, threadVars, consentVars, loopVars, fatigueVars, coordVars, memoryVars, dualVars, hwVars, agentVars>>

(***************************************************************************)
(* RoleSpec registry                                                       *)
(***************************************************************************)
CANONICAL_ROLES ==
    [ housekeeping |->
        [ role_load_cost |-> 35, requires_explicit_consent |-> TRUE,
          exclusive_with |-> {"maintenance", "social_presence"},
          allowed_gestures |-> {"increase_distance", "hold_still_visible", "acknowledge"} ],
      gardening |->
        [ role_load_cost |-> 25, requires_explicit_consent |-> FALSE,
          exclusive_with |-> {},
          allowed_gestures |-> {"offer_object", "open_hand_noncontact", "hold_still_visible"} ],
      cooking_prep |->
        [ role_load_cost |-> 40, requires_explicit_consent |-> TRUE,
          exclusive_with |-> {"transport", "social_presence"},
          allowed_gestures |-> {"offer_object", "open_hand_noncontact", "acknowledge"} ],
      transport |->
        [ role_load_cost |-> 45, requires_explicit_consent |-> TRUE,
          exclusive_with |-> {"cooking_prep", "social_presence"},
          allowed_gestures |-> {"offer_object", "increase_distance"} ],
      maintenance |->
        [ role_load_cost |-> 20, requires_explicit_consent |-> FALSE,
          exclusive_with |-> {"housekeeping"},
          allowed_gestures |-> {"hold_still_visible"} ],
      social_presence |->
        [ role_load_cost |-> 15, requires_explicit_consent |-> TRUE,
          exclusive_with |-> {"housekeeping", "cooking_prep", "transport"},
          allowed_gestures |-> {"hold_still_visible", "acknowledge"} ] ]

RoleKeys == DOMAIN CANONICAL_ROLES

\* keys a caller may pass: the registry's keys and one that is not in it
CallKeys == RoleKeys \cup {"observer"}

\* battery levels a caller may pass (hundredths): below, at and above the floor
BatteryLevels == {20, 40, 100}

\* RoleManager(max_load=1.0, min_battery=0.4)
max_load == 100
min_battery == 40

RECURSIVE SumCost(_)
SumCost(S) ==
    IF S = {} THEN 0
    ELSE LET k == CHOOSE x \in S : TRUE
         IN CANONICAL_ROLES[k].role_load_cost + SumCost(S \ {k})

(***************************************************************************)
(* RoleManager.activate                                                    *)
(***************************************************************************)
NoReasons ==
    [unknown |-> FALSE, consent |-> FALSE, capacity |-> FALSE,
     exclusive |-> {}, battery |-> FALSE]

AnyReason(r) ==
    r.unknown \/ r.consent \/ r.capacity \/ r.exclusive /= {} \/ r.battery

ConsentMissing(key, consent) ==
    CANONICAL_ROLES[key].requires_explicit_consent /\ ~consent

CapacityExceededM(ld, key) == ld > max_load
CapacityExceeded(ld, key) ==
    ld + CANONICAL_ROLES[key].role_load_cost > max_load

ExclusiveConflictsM(act, key) == {}
ExclusiveConflicts(act, key) ==
    {a \in act : key \in CANONICAL_ROLES[a].exclusive_with
                 \/ a \in CANONICAL_ROLES[key].exclusive_with}

LowBattery(battery) == battery < min_battery

\* the list `reasons` activate collects before it decides
Reasons(key, consent, battery, act, ld) ==
    IF key \notin RoleKeys
    THEN [NoReasons EXCEPT !.unknown = TRUE]
    ELSE [unknown   |-> FALSE,
          consent   |-> ConsentMissing(key, consent),
          capacity  |-> CapacityExceeded(ld, key),
          exclusive |-> ExclusiveConflicts(act, key),
          battery   |-> LowBattery(battery)]

\* the orders in which `for a in self.active` may meet the roles of S
Orders(S) ==
    {ord \in [1..Cardinality(S) -> S] : \A i, j \in DOMAIN ord : i /= j => ord[i] /= ord[j]}

\* a reason is a tuple of its words: <<"low battery">>, <<"exclusive with", a>>
Entry(cond, text) == IF cond THEN << <<text>> >> ELSE <<>>

\* the list activate returns, built from the checks in the order the code
\* makes them; `ord` is the order in which the conflicting active roles are met
FullReasonList(key, r, ord) ==
    IF r.unknown THEN << <<"unknown role", key>> >>
    ELSE Entry(r.consent, "consent required") \o Entry(r.capacity, "capacity exceeded")
         \o [i \in DOMAIN ord |-> <<"exclusive with", ord[i]>>]
         \o Entry(r.battery, "low battery")
ReasonListM(key, r, ord) ==
    LET full == FullReasonList(key, r, ord) IN
    IF full = <<>> THEN full ELSE <<Head(full)>>
ReasonList(key, r, ord) == FullReasonList(key, r, ord)

\* what activate leaves in self.active and self.load
ActiveAfterM(key, r, act) == IF r.unknown THEN act ELSE act \cup {key}
ActiveAfter(key, r, act) == IF AnyReason(r) THEN act ELSE act \cup {key}

LoadAfter(key, r, ld) ==
    IF AnyReason(r) THEN ld ELSE ld + CANONICAL_ROLES[key].role_load_cost

NoThreadRunning == \A t \in DOMAIN tpc : tpc[t] = "idle"

Activate(key, consent, battery) ==
    LET r == Reasons(key, consent, battery, active, load) IN
    /\ NoThreadRunning
    /\ active' = ActiveAfter(key, r, active)
    /\ load' = LoadAfter(key, r, load)
    /\ \E ord \in Orders(r.exclusive) :
           actResult' = [op |-> "activate", key |-> key, consent |-> consent,
                         battery |-> battery, ok |-> ~AnyReason(r), reasons |-> r,
                         list |-> ReasonList(key, r, ord),
                         preActive |-> active, preLoad |-> load]
    /\ UNCHANGED <<threadVars, OthersOfRoles>>

\* RoleManager.deactivate_all
DeactivateAll ==
    /\ NoThreadRunning
    /\ active' = {}
    /\ load' = 0
    /\ actResult' = [op |-> "deactivate_all", key |-> "", consent |-> FALSE,
                     battery |-> 0, ok |-> TRUE, reasons |-> NoReasons,
                     list |-> <<>>, preActive |-> active, preLoad |-> load]
    /\ UNCHANGED <<threadVars, OthersOfRoles>>

\* RoleManager.allowed_gestures
allowed_gesturesM == UNION {CANONICAL_ROLES[k].allowed_gestures : k \in active}
allowed_gestures ==
    IF active = {} THEN {"hold_still_visible"}
    ELSE UNION {CANONICAL_ROLES[k].allowed_gestures : k \in active}

(***************************************************************************)
(* ConsentManager                                                          *)
(***************************************************************************)
ConsentKinds == {"action", "memory_store", "memory_retrieve", "role_assignment"}

\* the requesters, kinds and request ids the ledger is driven with
Requesters == {"a1", "a2"}
RequestKinds == {"action"}
CheckKinds == {"action", "memory_store"}
RequestIds == {"c1", "c2"}

\* request_id=None, and the empty string: both are falsy in `if request_id:`
NoId == "<None>"
CheckIds == RequestIds \cup {"", NoId}
Falsy(id) == id = NoId \/ id = ""

NoRecord == [status |-> "none"]
NoExpiry == -1
\* expires_at values a caller may pass, on the ledger's clock
ExpiryTimes == {NoExpiry, 0}

\* the ledger's clock stops here
MaxConsentTime == 1

Scope(requester, kind) == <<requester, kind>>

HasRecord(id) == id \in DOMAIN consents /\ consents[id] /= NoRecord

\* `request.expires_at and datetime.now() > request.expires_at`
PastExpiry(rec) == rec.expires_at /= NoExpiry /\ cnow > rec.expires_at

\* ConsentManager.request_consent
RequestConsent(id, kind, requester, expires_at) ==
    /\ consents' = [consents EXCEPT ![id] =
                       [consent_type |-> kind, requester |-> requester,
                        status |-> "pending", expires_at |-> expires_at]]
    /\ everRequested' = everRequested \cup {Scope(requester, kind)}
    /\ cResult' = [op |-> "request", t |-> cnow, id |-> id, requester |-> "", kind |-> "",
                   result |-> TRUE]
    /\ UNCHANGED <<granted_scopes, cnow, OthersOfConsent>>

\* ConsentManager.grant_consent
GrantConsent(id) ==
    /\ IF ~HasRecord(id)
       THEN UNCHANGED <<consents, granted_scopes>>
       ELSE /\ consents' = [consents EXCEPT ![id].status = "granted"]
            /\ granted_scopes' = granted_scopes \cup
                   {Scope(consents[id].requester, consents[id].consent_type)}
    /\ cResult' = [op |-> "grant", t |-> cnow, id |-> id, requester |-> "", kind |-> "",
                   result |-> HasRecord(id)]
    /\ UNCHANGED <<cnow, everRequested, OthersOfConsent>>

\* ConsentManager.deny_consent
DenyConsent(id) ==
    /\ IF ~HasRecord(id)
       THEN UNCHANGED consents
       ELSE consents' = [consents EXCEPT ![id].status = "denied"]
    /\ cResult' = [op |-> "deny", t |-> cnow, id |-> id, requester |-> "", kind |-> "",
                   result |-> HasRecord(id)]
    /\ UNCHANGED <<granted_scopes, cnow, everRequested, OthersOfConsent>>

\* what check_consent returns
CheckScopeM(requester, kind) == TRUE
CheckScope(requester, kind) == Scope(requester, kind) \in granted_scopes

CheckValue(requester, kind, id) ==
    IF Falsy(id) THEN CheckScope(requester, kind)
    ELSE IF ~HasRecord(id) THEN FALSE
    ELSE IF PastExpiry(consents[id]) THEN FALSE
    ELSE consents[id].status = "granted"

\* what check_consent leaves in the ledger: an overdue record is flipped to expired
ConsentsAfterCheck(id) ==
    IF ~Falsy(id) /\ HasRecord(id) /\ PastExpiry(consents[id])
    THEN [consents EXCEPT ![id].status = "expired"]
    ELSE consents

\* ConsentManager.check_consent
CheckConsent(requester, kind, id) ==
    /\ consents' = ConsentsAfterCheck(id)
    /\ cResult' = [op |-> "check", t |-> cnow, id |-> id, requester |-> requester,
                   kind |-> kind, result |-> CheckValue(requester, kind, id)]
    /\ UNCHANGED <<granted_scopes, cnow, everRequested, OthersOfConsent>>

\* `if request.status == ConsentStatus.GRANTED: self._granted_scopes.discard(scope)`
ScopesAfterRevokeM(rec) == granted_scopes
ScopesAfterRevoke(rec) ==
    IF rec.status = "granted"
    THEN granted_scopes \ {Scope(rec.requester, rec.consent_type)}
    ELSE granted_scopes

\* ConsentManager.revoke_consent
RevokeConsent(id) ==
    /\ IF ~HasRecord(id)
       THEN UNCHANGED <<consents, granted_scopes>>
       ELSE /\ granted_scopes' = ScopesAfterRevoke(consents[id])
            /\ consents' = [consents EXCEPT ![id].status = "denied"]
    /\ cResult' = [op |-> "revoke", t |-> cnow, id |-> id, requester |-> "", kind |-> "",
                   result |-> HasRecord(id)]
    /\ UNCHANGED <<cnow, everRequested, OthersOfConsent>>

Overdue == {id \in DOMAIN consents : HasRecord(id) /\ PastExpiry(consents[id])}

\* ConsentManager.clear_expired
ClearExpired ==
    /\ granted_scopes' = granted_scopes \
           {Scope(consents[id].requester, consents[id].consent_type) :
                id \in {i \in Overdue : consents[i].status = "granted"}}
    /\ consents' = [id \in DOMAIN consents |->
                       IF id \in Overdue
                       THEN [consents[id] EXCEPT !.status = "expired"]
                       ELSE consents[id]]
    /\ cResult' = [op |-> "clear_expired", t |-> cnow, id |-> NoId, requester |-> "", kind |-> "",
                   result |-> Cardinality(Overdue) > 0]
    /\ UNCHANGED <<cnow, everRequested, OthersOfConsent>>

\* time passes on the ledger's clock
ConsentTick ==
    /\ cnow < MaxConsentTime
    /\ cnow' = cnow + 1
    /\ UNCHANGED <<consents, granted_scopes, everRequested, cResult, OthersOfConsent>>

InitConsent ==
    /\ consents = [id \in RequestIds |-> NoRecord]
    /\ granted_scopes = {}
    /\ cnow = 0
    /\ everRequested = {}
    /\ cResult = [op |-> "init", t |-> cnow, id |-> NoId, requester |-> "", kind |-> "",
                  result |-> FALSE]

NextConsent ==
    \/ \E id \in RequestIds, kind \in RequestKinds, requester \in Requesters,
          expires_at \in ExpiryTimes : RequestConsent(id, kind, requester, expires_at)
    \/ \E id \in RequestIds : GrantConsent(id)
    \/ \E id \in RequestIds : DenyConsent(id)
    \/ \E id \in RequestIds : RevokeConsent(id)
    \/ \E requester \in Requesters, kind \in CheckKinds, id \in CheckIds :
           CheckConsent(requester, kind, id)
    \/ ClearExpired
    \/ ConsentTick

(***************************************************************************)
(* LoopGuard.  A text is modelled by what simple_intensity and cue_key     *)
(* read of it: its letters, its upper-case letters, its '!' and '?', its   *)
(* length, and its lower-cased word tokens.                                *)
(***************************************************************************)
TextNormal == [text |-> "normal message", letters |-> 13, caps |-> 0, bangs |-> 0,
               len |-> 14, words |-> <<"normal", "message">>]
TextShout  == [text |-> "NORMAL MESSAGE", letters |-> 13, caps |-> 13, bangs |-> 0,
               len |-> 14, words |-> <<"normal", "message">>]
TextUrgent == [text |-> "URGENT!! HELP!!", letters |-> 10, caps |-> 10, bangs |-> 4,
               len |-> 15, words |-> <<"urgent", "help">>]

\* the (text, symbols) pairs observe is called with
ObserveInputs == {<<TextNormal, {}>>, <<TextShout, {}>>, <<TextUrgent, {"emergency"}>>}

\* LoopGuard(window_s=120, cooldown_s=90), deque(maxlen=128)
window_s == 120
cooldown_s == 90
EventsMaxLen == 128

\* seconds between two clock readings, and how many readings and calls are made
LoopTick == 30
MaxLoopTicks == 5
MaxObs == 5

Min(a, b) == IF a < b THEN a ELSE b
Max(a, b) == IF a > b THEN a ELSE b

\* cue_key: the sorted symbols if any, else the first six lower-cased words
cue_key(symbols, text) ==
    IF symbols /= {} THEN <<"S", symbols>>
    ELSE <<"W", SubSeq(text.words, 1, Min(6, Len(text.words)))>>

\* simple_intensity, as the fraction num / den:
\* 0.55 * caps/letters + 0.30 * min(1, bangs/6) + 0.15 * min(1, len/400)
IntensityNum(text) ==
    IF text.len = 0 \/ text.letters = 0 THEN 0
    ELSE 4400 * text.caps + 400 * text.letters * Min(6, text.bangs)
         + 3 * text.letters * Min(400, text.len)
IntensityDen(text) == IF text.len = 0 \/ text.letters = 0 THEN 1 ELSE 8000 * text.letters

\* intensity_score = clamp01(inten / 0.55), as the fraction num / den
IntensityScoreDen(text) == IF text.letters = 0 THEN 1 ELSE 4400 * text.letters
IntensityScoreNumM(text) == 0
IntensityScoreNum(text) == Min(IntensityNum(text), IntensityScoreDen(text))

\* risk is kept in units of 1/6000, rounded down: comparing it with 0.75
\* (4500) and 0.6 (3600) is then exact
RiskHigh == 4500
RiskFloor == 3600

\* rapid = max(0, 1 - dt/60), in sixtieths
Rapid(same) ==
    IF Len(same) >= 2
    THEN Max(0, 60 - (same[Len(same)].t - same[Len(same) - 1].t))
    ELSE 0

\* risk = clamp01(0.45 * repeat_score + 0.25 * rapid + 0.30 * intensity_score)
Risk(repeats, rapid, text) ==
    LET isd == IntensityScoreDen(text)
        n == (900 * Min(3, repeats - 1) + 25 * rapid) * isd
             + 1800 * IntensityScoreNum(text)
    IN Max(0, Min(6000, n \div isd))

\* the sliding window: `while self.events and self.events[0].t < cutoff: popleft()`
RECURSIVE Pruned(_, _)
Pruned(ev, cutoff) ==
    IF ev /= <<>> /\ ev[1].t < cutoff THEN Pruned(Tail(ev), cutoff) ELSE ev

\* deque(maxlen=128).append
DequeAppend(ev, e) ==
    IF Len(ev) >= EventsMaxLen THEN Append(Tail(ev), e) ELSE Append(ev, e)

\* max(risk, 0.6)
FlooredM(risk) == risk
Floored(risk) == Max(risk, RiskFloor)

InCooldownM(now) == FALSE
InCooldown(now) == now < cooldown_until

NoReason == [repeats |-> 0, rapid |-> 0, inten |-> <<0, 1>>]

\* LoopGuard.observe(text, symbols, now)
Observe(text, symbols) ==
    LET now == lnow
        k == cue_key(symbols, text)
        inten == <<IntensityNum(text), IntensityDen(text)>>
        ev == DequeAppend(Pruned(events, now - window_s),
                          [t |-> now, key |-> k, intensity |-> inten])
        same == SelectSeq(ev, LAMBDA e : e.key = k)
        repeats == Len(same)
        rapid == Rapid(same)
        risk == Risk(repeats, rapid, text)
        reason == [repeats |-> repeats, rapid |-> rapid, inten |-> inten]
    IN
    /\ nObs < MaxObs
    /\ nObs' = nObs + 1
    /\ events' = ev
    /\ IF InCooldown(now)
       THEN /\ obs' = [t |-> now, raw |-> risk, risk |-> Floored(risk),
                       mode |-> "deescalate", reason |-> last_reason,
                       hiBefore |-> hiAt, trigBefore |-> trigAt]
            /\ hiAt' = IF Floored(risk) >= RiskHigh THEN now ELSE hiAt
            /\ UNCHANGED <<cooldown_until, last_reason, trigAt>>
       ELSE IF risk >= RiskHigh
       THEN /\ cooldown_until' = now + cooldown_s
            /\ last_reason' = reason
            /\ obs' = [t |-> now, raw |-> risk, risk |-> risk,
                       mode |-> "deescalate", reason |-> reason,
                       hiBefore |-> hiAt, trigBefore |-> trigAt]
            /\ hiAt' = now
            /\ trigAt' = now
       ELSE /\ obs' = [t |-> now, raw |-> risk, risk |-> risk,
                       mode |-> "normal", reason |-> NoReason,
                       hiBefore |-> hiAt, trigBefore |-> trigAt]
            /\ UNCHANGED <<cooldown_until, last_reason, hiAt, trigAt>>
    /\ UNCHANGED <<lnow, OthersOfLoop>>

\* time passes between two observe calls
LoopClockTick ==
    /\ lnow + LoopTick <= LoopTick * (MaxLoopTicks + 1)
    /\ lnow' = lnow + LoopTick
    /\ UNCHANGED <<events, cooldown_until, last_reason, nObs, obs, hiAt, trigAt, OthersOfLoop>>

\* LoopGuard.policy
policy(mode) ==
    IF mode = "deescalate"
    THEN [max_chars |-> 550, force_gesture |-> "hold_still_visible",
          allow_anchor |-> FALSE, tone |-> "grounding"]
    ELSE [max_chars |-> 1400, force_gesture |-> "None",
          allow_anchor |-> TRUE, tone |-> "neutral"]

InitLoop ==
    /\ events = <<>>
    /\ cooldown_until = 0
    /\ last_reason = NoReason
    /\ lnow = LoopTick
    /\ nObs = 0
    /\ obs = [t |-> -1, raw |-> 0, risk |-> 0, mode |-> "normal", reason |-> NoReason,
              hiBefore |-> -1, trigBefore |-> -1]
    /\ hiAt = -1
    /\ trigAt = -1

NextLoop ==
    \/ \E in \in ObserveInputs : Observe(in[1], in[2])
    \/ LoopClockTick

(***************************************************************************)
(* FatigueTracker.  Energy is on the 0-100 scale of the code; the clock    *)
(* counts minutes, so that `elapsed * recovery_rate` is a whole number.    *)
(* FatigueState.last_action is written and never read: it is left out.     *)
(***************************************************************************)
\* the agents the tracker is driven with
\* every agent id the tracker and the coordinator are given
AgentIds == {"a1", "a2"}
FatigueAgents == {"a1"}

\* FatigueTracker(energy_cost_per_action, max_actions_before_rest):
\* the cost of scenario 3 with the default count, and the values of validate.py
FatigueConfigs == {[cost |-> 20, max_actions |-> 20], [cost |-> 10, max_actions |-> 5]}

\* min_rest_duration = timedelta(minutes=5); recovery_rate = 10.0 per minute
min_rest == 5
recovery_rate == 10
FullEnergy == 100
ResumeEnergy == 50

\* the tracker's clock stops here
MaxFatigueTime == 6

NoTime == -1
NoFState == [level |-> "unregistered"]

\* FatigueState(agent_id)
FreshState == [level |-> "fresh", energy |-> FullEnergy, actions_count |-> 0,
               rest_started |-> NoTime]

Registered(a) == fstates[a] /= NoFState

\* min(100.0, self.energy + recovered)
RecoveredEnergyM(energy, elapsed) == energy + elapsed * recovery_rate
RecoveredEnergy(energy, elapsed) == Min(FullEnergy, energy + elapsed * recovery_rate)

\* FatigueState.update_energy
UpdateEnergy(st) ==
    IF st.rest_started /= NoTime /\ st.level = "recovering"
    THEN LET e == RecoveredEnergy(st.energy, fnow - st.rest_started) IN
         IF e >= 80 THEN [st EXCEPT !.energy = e, !.level = "fresh", !.rest_started = NoTime]
         ELSE IF e >= 60 THEN [st EXCEPT !.energy = e, !.level = "active"]
         ELSE [st EXCEPT !.energy = e]
    ELSE st

\* FatigueTracker._can_resume
CanResume(st) ==
    IF st.rest_started = NoTime THEN TRUE
    ELSE fnow - st.rest_started >= min_rest /\ st.energy >= ResumeEnergy

\* FatigueTracker._update_fatigue_level
UpdateFatigueLevel(st) ==
    IF st.energy <= 0 THEN [st EXCEPT !.level = "exhausted", !.energy = 0]
    ELSE IF st.energy <= 25 THEN [st EXCEPT !.level = "tired"]
    ELSE IF st.energy <= 60 THEN [st EXCEPT !.level = "active"]
    ELSE [st EXCEPT !.level = "fresh"]

\* what FatigueTracker.start_rest writes
Resting(st) == [st EXCEPT !.level = "recovering", !.rest_started = fnow,
                          !.actions_count = 0]

\* `if state.actions_count >= self._max_actions` of record_action
MustRestM(st) == FALSE
MustRest(st) == st.actions_count >= fconfig.max_actions

\* FatigueTracker.record_action on the state `st0` of a registered agent:
\* the state it leaves, the value it returns, and whether it started a rest
RecordOn(st0) ==
    LET st == UpdateEnergy(st0) IN
    IF st.level = "recovering" /\ ~CanResume(st)
    THEN [state |-> st, result |-> FALSE, rested |-> FALSE, why |-> "recovering"]
    ELSE IF st.level = "exhausted"
    THEN [state |-> st, result |-> FALSE, rested |-> FALSE, why |-> "exhausted"]
    ELSE LET spent == UpdateFatigueLevel(
                          [st EXCEPT !.energy = st.energy - fconfig.cost,
                                     !.actions_count = st.actions_count + 1])
         IN IF MustRest(spent)
            THEN [state |-> Resting(spent), result |-> FALSE, rested |-> TRUE,
                  why |-> "max_actions"]
            ELSE [state |-> spent, result |-> TRUE, rested |-> FALSE, why |-> ""]

\* FatigueTracker.can_act on the state of a registered agent
CanActOn(st0) ==
    LET st == UpdateEnergy(st0) IN
    IF st.level = "exhausted" THEN FALSE
    ELSE IF st.level = "recovering" THEN CanResume(st)
    ELSE TRUE

FResult(op, a, result, why, energyAt, restBefore) ==
    [op |-> op, agent |-> a, result |-> result, why |-> why, t |-> fnow,
     energyAt |-> energyAt, restBefore |-> restBefore,
     levelAt |-> UpdateEnergy(IF Registered(a) THEN fstates[a] ELSE FreshState).level,
     countBefore |-> IF Registered(a) THEN fstates[a].actions_count ELSE 0]

\* FatigueTracker.register_agent
FRegisterAgent(a) ==
    /\ fstates' = [fstates EXCEPT ![a] = FreshState]
    /\ restOpen' = [restOpen EXCEPT ![a] = NoTime]
    /\ fResult' = FResult("register_agent", a, TRUE, "", FullEnergy, restOpen[a])
    /\ UNCHANGED <<fconfig, fnow, OthersOfFatigue>>

\* FatigueTracker.record_action
FRecordAction(a) ==
    LET st0 == IF Registered(a) THEN fstates[a] ELSE FreshState
        r == RecordOn(st0)
    IN
    /\ fstates' = [fstates EXCEPT ![a] = r.state]
    /\ restOpen' = [restOpen EXCEPT ![a] =
                       IF r.rested THEN fnow
                       ELSE IF r.result THEN NoTime
                       ELSE restOpen[a]]
    /\ fResult' = FResult("record_action", a, r.result, r.why,
                          UpdateEnergy(st0).energy, restOpen[a])
    /\ UNCHANGED <<fconfig, fnow, OthersOfFatigue>>

\* FatigueTracker.start_rest
FStartRest(a) ==
    /\ IF Registered(a)
       THEN /\ fstates' = [fstates EXCEPT ![a] = Resting(fstates[a])]
            /\ restOpen' = [restOpen EXCEPT ![a] = fnow]
       ELSE UNCHANGED <<fstates, restOpen>>
    /\ fResult' = FResult("start_rest", a, Registered(a), "",
                          IF Registered(a) THEN fstates[a].energy ELSE 0, restOpen[a])
    /\ UNCHANGED <<fconfig, fnow, OthersOfFatigue>>

\* FatigueTracker.can_act
FCanAct(a) ==
    LET result == IF Registered(a) THEN CanActOn(fstates[a]) ELSE TRUE IN
    /\ fstates' = IF Registered(a)
                  THEN [fstates EXCEPT ![a] = UpdateEnergy(fstates[a])]
                  ELSE fstates
    /\ restOpen' = [restOpen EXCEPT ![a] = IF result THEN NoTime ELSE restOpen[a]]
    /\ fResult' = FResult("can_act", a, result, "",
                          IF Registered(a) THEN UpdateEnergy(fstates[a]).energy ELSE 0,
                          restOpen[a])
    /\ UNCHANGED <<fconfig, fnow, OthersOfFatigue>>

\* FatigueTracker.get_state
FGetState(a) ==
    /\ fstates' = IF Registered(a)
                  THEN [fstates EXCEPT ![a] = UpdateEnergy(fstates[a])]
                  ELSE fstates
    /\ fResult' = FResult("get_state", a, Registered(a), "",
                          IF Registered(a) THEN UpdateEnergy(fstates[a]).energy ELSE 0,
                          restOpen[a])
    /\ UNCHANGED <<fconfig, fnow, restOpen, OthersOfFatigue>>

\* FatigueTracker.reset_agent
FResetAgent(a) ==
    /\ IF Registered(a)
       THEN /\ fstates' = [fstates EXCEPT ![a] = FreshState]
            /\ restOpen' = [restOpen EXCEPT ![a] = NoTime]
       ELSE UNCHANGED <<fstates, restOpen>>
    /\ fResult' = FResult("reset_agent", a, Registered(a), "", FullEnergy, restOpen[a])
    /\ UNCHANGED <<fconfig, fnow, OthersOfFatigue>>

\* a minute passes
Tick(limit) ==
    /\ fnow < limit
    /\ fnow' = fnow + 1
    /\ UNCHANGED <<fconfig, fstates, fResult, restOpen, OthersOfFatigue>>
FatigueTick == Tick(MaxFatigueTime)

InitFatigue ==
    /\ fconfig \in FatigueConfigs
    /\ fstates = [a \in AgentIds |-> NoFState]
    /\ fnow = 0
    /\ fResult = [op |-> "init", agent |-> "", result |-> FALSE, why |-> "", t |-> 0,
                  energyAt |-> 0, restBefore |-> NoTime, levelAt |-> "", countBefore |-> 0]
    /\ restOpen = [a \in AgentIds |-> NoTime]

NextFatigue ==
    \/ \E a \in FatigueAgents : FRegisterAgent(a)
    \/ \E a \in FatigueAgents : FRecordAction(a)
    \/ \E a \in FatigueAgents : FStartRest(a)
    \/ \E a \in FatigueAgents : FCanAct(a)
    \/ \E a \in FatigueAgents : FGetState(a)
    \/ \E a \in FatigueAgents : FResetAgent(a)
    \/ FatigueTick

(***************************************************************************)
(* StressEngine.  sigma is kept in thousandths: 1.0 is SigmaOne, and the   *)
(* rate 0.02*u + 0.008*max(0, g) - 0.04 becomes 20*u + 8*max(0, g) - 40.   *)
(* A role the engine has not stepped yet reads as StressState(), sigma 0.  *)
(***************************************************************************)
SigmaOne == 1000

\* the calls of step: (dt, active, util, global_stress)
StressInputs ==
    { [dt |-> 1, active |-> {}, util |-> <<>>, global_stress |-> 0],
      [dt |-> 10, active |-> {"housekeeping"},
       util |-> [k \in {"housekeeping"} |-> 1], global_stress |-> 5],
      [dt |-> 1, active |-> {"housekeeping", "gardening"},
       util |-> [k \in {"housekeeping"} |-> 50], global_stress |-> -1] }

\* step stops being called after this many calls
MaxStressSteps == 3

\* util.get(k, 0.0) if k in active else 0.0
Util(in, k) == IF k \in in.active /\ k \in DOMAIN in.util THEN in.util[k] ELSE 0

\* ds = 0.02 * u + 0.008 * max(0, global_stress) - (0.04 if k not in active else 0.0)
Ds(in, k) == 20 * Util(in, k) + 8 * Max(0, in.global_stress)
             - (IF k \notin in.active THEN 40 ELSE 0)

\* max(0.0, min(1.0, s.sigma + dt * ds))
ClampSigma(x) == Max(0, Min(SigmaOne, x))

\* StressEngine.step
Step(in) ==
    /\ nSteps < MaxStressSteps
    /\ sigma' = [k \in RoleKeys |-> ClampSigma(sigma[k] + in.dt * Ds(in, k))]
    /\ nSteps' = nSteps + 1
    /\ UNCHANGED OthersOfStress

\* StressEngine.clear
StressClear ==
    /\ sigma' = [k \in RoleKeys |-> 0]
    /\ UNCHANGED <<nSteps, OthersOfStress>>

InitStress ==
    /\ sigma = [k \in RoleKeys |-> 0]
    /\ nSteps = 0

NextStress ==
    \/ \E in \in StressInputs : Step(in)
    \/ StressClear

(***************************************************************************)
(* Coordinator and the Agent objects registered with it.  The coordinator  *)
(* is built with the FatigueTracker above (Coordinator(fatigue_tracker=    *)
(* tracker)); an Agent is built without a consent manager and either with  *)
(* the same tracker or with none.                                          *)
(***************************************************************************)
CoordAgents == FatigueAgents
\* the actions asked for: "z" is in no role's permitted set
Actions == {"x", "y", "z"}

\* LoopDetection(): window_size, max_repetitions; the literals of coordinate_action
window_size == 10
max_repetitions == 3
RecentSpan == 5
RepetitiveSpan == 3
BreakerLevel == 5
MaxLevel == 10
EscalationStep == 2

\* the history stops growing after this many appended records
MaxAppends == 4

\* the clock the coordinator's tracker reads stops here
MaxCoordTime == 1

NoAgent == [registered |-> FALSE]
NoRole == [role_id |-> "<None>"]
NoLevel == -1

\* the roles handed to Agent.assign_role
AgentRoles == { [role_id |-> "executor", permitted_actions |-> {"x", "y"}] }

\* Agent(agent_id, name, fatigue_tracker=...) after assign_role(role), and
\* one that deactivate() has been called on
AgentObjects ==
    { [is_active |-> TRUE, current_role |-> r, wired |-> w] :
          r \in AgentRoles, w \in BOOLEAN }
    \cup { [is_active |-> FALSE, current_role |-> NoRole, wired |-> FALSE] }

IsRegistered(a) == agents[a] /= NoAgent

\* Role.can_perform
RoleCanPerform(role, action) ==
    action \in role.permitted_actions \/ "*" \in role.permitted_actions

\* the records of `hist` made by agent a doing `action`
SameIn(hist, a, action) ==
    Cardinality({i \in DOMAIN hist : hist[i].agent_id = a /\ hist[i].action = action})

\* list(history)[-n:]
LastN(hist, n) == SubSeq(hist, Max(1, Len(hist) - n + 1), Len(hist))

\* Coordinator._detect_loop
DetectLoopM(hist, a, action) == FALSE
DetectLoop(hist, a, action) ==
    /\ SameIn(hist, a, action) >= max_repetitions
    /\ SameIn(LastN(hist, RecentSpan), a, action) >= max_repetitions

\* Coordinator._is_repetitive_action
IsRepetitiveAction(hist, a, action) ==
    \A i \in DOMAIN LastN(hist, RepetitiveSpan) :
        /\ LastN(hist, RepetitiveSpan)[i].agent_id = a
        /\ LastN(hist, RepetitiveSpan)[i].action = action

\* deque(maxlen=window_size).append
HistoryAppend(hist, r) ==
    IF Len(hist) >= window_size THEN Append(Tail(hist), r) ELSE Append(hist, r)

\* the level _trigger_de_escalation leaves
EscalatedM(level) == level + EscalationStep
Escalated(level) == Min(MaxLevel, level + EscalationStep)

\* `if agent_id in self._circuit_breakers: return False`
InBreakerM(a) == FALSE
InBreaker(a) == a \in circuit_breakers

CoResult(op, a, action, result, why) ==
    [op |-> op, agent |-> a, action |-> action, result |-> result, why |-> why,
     breakersBefore |-> circuit_breakers]

\* Agent.can_perform_action as coordinate_action calls it: whether the agent's
\* tracker is asked (FatigueTracker.can_act, which also updates the energy)
AsksTracker(ag) == ag.is_active /\ ag.wired
TrackerAllows(ag, st) ==
    IF AsksTracker(ag) /\ st /= NoFState THEN CanActOn(st) ELSE TRUE
CanPerformActionM(ag, st, action) == TRUE
CanPerformAction(ag, st, action) ==
    /\ ag.is_active
    /\ TrackerAllows(ag, st)
    /\ ag.current_role /= NoRole
    /\ RoleCanPerform(ag.current_role, action)

\* the tracker state after can_perform_action
AfterCanPerform(ag, st) ==
    IF AsksTracker(ag) /\ st /= NoFState THEN UpdateEnergy(st) ELSE st

\* `if self._escalation_levels[agent_id] >= 5`
AtCeilingM(level) == FALSE
AtCeiling(level) == level >= BreakerLevel

\* what coordinate_action(a, action) comes to, in the order of its checks
Outcome(a, action) ==
    IF InBreaker(a) THEN "breaker"
    ELSE IF ~IsRegistered(a) THEN "unknown"
    ELSE IF ~CanPerformAction(agents[a], fstates[a], action) THEN "not_permitted"
    ELSE IF DetectLoop(action_history, a, action) THEN "loop"
    ELSE IF AtCeiling(escalation_levels[a]) THEN "circuit_breaker"
    ELSE IF ~RecordOn(IF AfterCanPerform(agents[a], fstates[a]) = NoFState
                      THEN FreshState
                      ELSE AfterCanPerform(agents[a], fstates[a])).result
         THEN "fatigued"
    ELSE "ok"

\* FatigueTracker.start_rest as _trigger_de_escalation calls it
RestIfKnown(st) == IF st = NoFState THEN st ELSE Resting(st)

\* Coordinator.coordinate_action, with the history growing up to `limit` appends
Coordinate(a, action, limit) ==
    LET why == Outcome(a, action)
        appended == HistoryAppend(action_history, [agent_id |-> a, action |-> action])
        st1 == IF why \in {"breaker", "unknown"} THEN fstates[a]
               ELSE AfterCanPerform(agents[a], fstates[a])
        rec == RecordOn(IF st1 = NoFState THEN FreshState ELSE st1)
        asked == why \notin {"breaker", "unknown"} /\ AsksTracker(agents[a])
                 /\ fstates[a] /= NoFState
    IN
    /\ why \in {"fatigued", "ok"} => nAppends < limit
    /\ action_history' = IF why \in {"fatigued", "ok"} THEN appended ELSE action_history
    /\ nAppends' = IF why \in {"fatigued", "ok"} THEN nAppends + 1 ELSE nAppends
    /\ fstates' = [fstates EXCEPT ![a] =
                      CASE why = "loop" -> RestIfKnown(st1)
                        [] why = "fatigued" -> Resting(rec.state)
                        [] why = "ok" -> rec.state
                        [] OTHER -> st1]
    /\ restOpen' = [restOpen EXCEPT ![a] =
                      CASE why = "loop" /\ st1 /= NoFState -> fnow
                        [] why = "fatigued" -> fnow
                        [] why = "ok" -> NoTime
                        [] asked /\ TrackerAllows(agents[a], fstates[a]) -> NoTime
                        [] OTHER -> restOpen[a]]
    /\ escalation_levels' =
           CASE why \in {"loop", "fatigued"} ->
                    [escalation_levels EXCEPT ![a] = Escalated(escalation_levels[a])]
             [] why = "ok" /\ ~IsRepetitiveAction(appended, a, action) ->
                    [escalation_levels EXCEPT ![a] = Max(0, escalation_levels[a] - 1)]
             [] OTHER -> escalation_levels
    /\ circuit_breakers' = IF why = "circuit_breaker" THEN circuit_breakers \cup {a}
                           ELSE circuit_breakers
    /\ tripped' = IF why = "circuit_breaker" THEN tripped \cup {a} ELSE tripped
    /\ agents' = IF why = "circuit_breaker"
                 THEN [agents EXCEPT ![a] = [@ EXCEPT !.is_active = FALSE,
                                                      !.current_role = NoRole]]
                 ELSE agents
    /\ coResult' = CoResult("coordinate_action", a, action, why = "ok", why)
    /\ UNCHANGED <<fconfig, fnow, fResult, OthersOfCoord>>

\* Coordinator.coordinate_action
CoordinateAction(a, action) == Coordinate(a, action, MaxAppends)

\* Coordinator.register_agent
RegisterAgent(a, obj) ==
    /\ agents' = [agents EXCEPT ![a] = obj]
    /\ escalation_levels' = [escalation_levels EXCEPT ![a] = 0]
    /\ fstates' = [fstates EXCEPT ![a] = FreshState]
    /\ restOpen' = [restOpen EXCEPT ![a] = NoTime]
    /\ coResult' = CoResult("register_agent", a, "", TRUE, "")
    /\ UNCHANGED <<action_history, circuit_breakers, nAppends, tripped,
                   fconfig, fnow, fResult, OthersOfCoord>>

\* Coordinator.unregister_agent
UnregisterAgent(a) ==
    /\ IF IsRegistered(a)
       THEN /\ agents' = [agents EXCEPT ![a] = NoAgent]
            /\ escalation_levels' = [escalation_levels EXCEPT ![a] = NoLevel]
            /\ circuit_breakers' = circuit_breakers \ {a}
       ELSE UNCHANGED <<agents, escalation_levels, circuit_breakers>>
    /\ coResult' = CoResult("unregister_agent", a, "", IsRegistered(a), "")
    /\ UNCHANGED <<action_history, nAppends, tripped, fatigueVars, OthersOfCoord>>

\* Coordinator.reset_circuit_breaker
ResetCircuitBreaker(a) ==
    /\ IF a \in circuit_breakers
       THEN /\ circuit_breakers' = circuit_breakers \ {a}
            /\ escalation_levels' = [escalation_levels EXCEPT ![a] = 0]
            /\ agents' = IF IsRegistered(a)
                         THEN [agents EXCEPT ![a] = [@ EXCEPT !.is_active = TRUE]]
                         ELSE agents
       ELSE UNCHANGED <<circuit_breakers, escalation_levels, agents>>
    /\ tripped' = tripped \ {a}
    /\ coResult' = CoResult("reset_circuit_breaker", a, "", a \in circuit_breakers, "")
    /\ UNCHANGED <<action_history, nAppends, fatigueVars, OthersOfCoord>>

\* Coordinator.clear_history: one agent's records, or all of them for None or ""
ClearHistory(a) ==
    /\ action_history' = IF Falsy(a) THEN <<>>
                         ELSE SelectSeq(action_history, LAMBDA r : r.agent_id /= a)
    /\ coResult' = CoResult("clear_history", a, "", TRUE, "")
    /\ UNCHANGED <<agents, escalation_levels, circuit_breakers, nAppends, tripped,
                   fatigueVars, OthersOfCoord>>

\* Agent.assign_role on a registered agent (no consent manager: always assigned)
AssignRole(a, role) ==
    /\ IsRegistered(a)
    /\ agents' = [agents EXCEPT ![a] = [@ EXCEPT !.current_role = role]]
    /\ coResult' = CoResult("assign_role", a, "", TRUE, "")
    /\ UNCHANGED <<action_history, escalation_levels, circuit_breakers, nAppends,
                   tripped, fatigueVars, OthersOfCoord>>

\* a minute passes
CoordTick == Tick(MaxCoordTime)

InitCoord ==
    /\ agents = [a \in AgentIds |-> NoAgent]
    /\ action_history = <<>>
    /\ escalation_levels = [a \in AgentIds |-> NoLevel]
    /\ circuit_breakers = {}
    /\ nAppends = 0
    /\ coResult = [op |-> "init", agent |-> "", action |-> "", result |-> FALSE,
                   why |-> "", breakersBefore |-> {}]
    /\ tripped = {}

NextCoord ==
    \/ \E a \in CoordAgents, obj \in AgentObjects : RegisterAgent(a, obj)
    \/ \E a \in CoordAgents : UnregisterAgent(a)
    \/ \E a \in CoordAgents, action \in Actions : CoordinateAction(a, action)
    \/ \E a \in CoordAgents : ResetCircuitBreaker(a)
    \/ \E a \in CoordAgents \cup {NoId} : ClearHistory(a)
    \/ \E a \in CoordAgents, role \in AgentRoles : AssignRole(a, role)
    \/ CoordTick

\* two agents registered with one Coordinator, each attempting one action of
\* its own over and over
SharedAgents == {"a1", "a2"}
OwnAction == [a1 |-> "x", a2 |-> "y"]
MaxSharedAppends == 7
SharedObject ==
    CHOOSE obj \in AgentObjects : obj.is_active /\ ~obj.wired /\ obj.current_role /= NoRole

\* Coordinator.coordinate_action by one of the two agents
SharedCoordinate(a) == Coordinate(a, OwnAction[a], MaxSharedAppends)

NextShared ==
    \/ \E a \in SharedAgents : RegisterAgent(a, SharedObject)
    \/ \E a \in SharedAgents : SharedCoordinate(a)

(***************************************************************************)
(* MemoryStore.  A Memory is modelled by its agent_id and its cues; a      *)
(* list of memories returned by a call is modelled by the set of their     *)
(* ids.  When the store is built with the ConsentManager, its consent      *)
(* checks are check_consent calls on the ledger above.                     *)
(***************************************************************************)
MemIds == {"m1", "m2"}
MemAgents == {"a1", "a2"}
CueIds == {"q1", "q2"}
\* the consent ids the store's callers pass
MemConsentIds == {NoId, "c1"}

NoMemory == [memory_id |-> "<none>"]
NoCue == [cue_id |-> "<none>"]

Stored(m) == memories[m] /= NoMemory
CueKnown(q) == cues[q] /= NoCue

\* `if self._consent_manager: if not check_consent(...)`: whether the call goes on
ConsentPassesM(agent, kind, id) == TRUE
ConsentPasses(agent, kind, id) == mwired => CheckValue(agent, kind, id)

\* what the store's consent check leaves in the ledger
LedgerAfter(id) == IF mwired THEN ConsentsAfterCheck(id) ELSE consents

\* `[self._memories[mid] for mid in memory_ids if mid in self._memories]`
IndexedM(q) == cue_index[q]
Indexed(q) == {m \in cue_index[q] : Stored(m)}

\* what retrieve_by_cue returns
Retrieved(q, agent, id) ==
    IF ~ConsentPasses(agent, "memory_retrieve", id) THEN {}
    ELSE IF ~CueKnown(q) \/ ~cues[q].enabled THEN {}
    ELSE Indexed(q)

\* MemoryStore.get_memory_count
get_memory_count(agent) ==
    IF Falsy(agent) THEN Cardinality({m \in MemIds : Stored(m)})
    ELSE Cardinality({m \in MemIds : Stored(m) /\ memories[m].agent_id = agent})

MResult(op, m, q, agent, id, result) ==
    [op |-> op, memory_id |-> m, cue_id |-> q, agent |-> agent, consent_id |-> id,
     result |-> result]

\* MemoryStore(consent_manager=...)
NewMemoryStore(wired) ==
    /\ mwired' = wired
    /\ memories' = [m \in MemIds |-> NoMemory]
    /\ cues' = [q \in CueIds |-> NoCue]
    /\ cue_index' = [q \in CueIds |-> {}]
    /\ forgotten' = {}
    /\ mResult' = MResult("new", "", "", "", NoId, {})
    /\ UNCHANGED <<consentVars, OthersOfMemory>>

\* MemoryStore.register_cue
RegisterCue(q) ==
    /\ cues' = [cues EXCEPT ![q] = [cue_id |-> q, enabled |-> TRUE]]
    /\ cue_index' = [cue_index EXCEPT ![q] = {}]
    /\ mResult' = MResult("register_cue", "", q, "", NoId, {})
    /\ UNCHANGED <<mwired, memories, forgotten, consentVars, OthersOfMemory>>

\* MemoryStore.store_memory
StoreMemory(m, agent, cs, id) ==
    /\ IF ConsentPasses(agent, "memory_store", id)
       THEN /\ memories' = [memories EXCEPT ![m] =
                               [memory_id |-> m, agent_id |-> agent, cues |-> cs]]
            /\ cue_index' = [q \in CueIds |->
                                IF q \in cs /\ CueKnown(q) THEN cue_index[q] \cup {m}
                                ELSE cue_index[q]]
            /\ forgotten' = forgotten \ {m}
       ELSE UNCHANGED <<memories, cue_index, forgotten>>
    /\ consents' = LedgerAfter(id)
    /\ mResult' = MResult("store_memory", m, "", agent, id,
                          IF ConsentPasses(agent, "memory_store", id) THEN {m} ELSE {})
    /\ UNCHANGED <<mwired, cues, granted_scopes, cnow, everRequested, cResult,
                   OthersOfMemory>>

\* MemoryStore.retrieve_by_cue
RetrieveByCue(q, agent, id) ==
    /\ consents' = LedgerAfter(id)
    /\ mResult' = MResult("retrieve_by_cue", "", q, agent, id, Retrieved(q, agent, id))
    /\ UNCHANGED <<mwired, memories, cues, cue_index, forgotten,
                   granted_scopes, cnow, everRequested, cResult, OthersOfMemory>>

\* the cue index after the memories of `ms` are forgotten: each is discarded
\* from the index of the cues its record names
IndexWithout(ms) ==
    [q \in CueIds |->
        cue_index[q] \ {m \in ms : Stored(m) /\ q \in memories[m].cues /\ CueKnown(q)}]

\* what forget does for each memory of `ms`
ForgetThem(ms) ==
    /\ cue_index' = IndexWithout(ms)
    /\ memories' = [m \in MemIds |-> IF m \in ms THEN NoMemory ELSE memories[m]]
    /\ forgotten' = forgotten \cup {m \in ms : Stored(m)}

\* MemoryStore.forget
Forget(m) ==
    /\ ForgetThem({m} \cap {x \in MemIds : Stored(x)})
    /\ mResult' = MResult("forget", m, "", "", NoId, IF Stored(m) THEN {m} ELSE {})
    /\ UNCHANGED <<mwired, cues, consentVars, OthersOfMemory>>

\* the memories forget_all(agent) goes through
ToForget(agent) ==
    IF Falsy(agent) THEN {m \in MemIds : Stored(m)}
    ELSE {m \in MemIds : Stored(m) /\ memories[m].agent_id = agent}

\* MemoryStore.forget_all
ForgetAll(agent) ==
    /\ ForgetThem(ToForget(agent))
    /\ mResult' = MResult("forget_all", "", "", agent, NoId, ToForget(agent))
    /\ UNCHANGED <<mwired, cues, consentVars, OthersOfMemory>>

\* MemoryStore.disable_cue and MemoryStore.enable_cue
SetCue(q, enabled) ==
    /\ cues' = IF CueKnown(q) THEN [cues EXCEPT ![q].enabled = enabled] ELSE cues
    /\ mResult' = MResult(IF enabled THEN "enable_cue" ELSE "disable_cue", "", q, "",
                          NoId, IF CueKnown(q) THEN {q} ELSE {})
    /\ UNCHANGED <<mwired, memories, cue_index, forgotten, consentVars,
                   OthersOfMemory>>
disable_cue(q) == SetCue(q, FALSE)
enable_cue(q) == SetCue(q, TRUE)

InitMemory ==
    /\ mwired = FALSE
    /\ memories = [m \in MemIds |-> NoMemory]
    /\ cues = [q \in CueIds |-> NoCue]
    /\ cue_index = [q \in CueIds |-> {}]
    /\ forgotten = {}
    /\ mResult = [op |-> "init", memory_id |-> "", cue_id |-> "", agent |-> "",
                  consent_id |-> NoId, result |-> {}]

\* the store's own operations, for the given ids, agents, cues and consent ids
StoreOps(wirings, ms, as, qs, ids) ==
    \/ \E wired \in wirings : NewMemoryStore(wired)
    \/ \E q \in qs : RegisterCue(q)
    \/ \E m \in ms, agent \in as, cs \in SUBSET qs, id \in ids :
           StoreMemory(m, agent, cs, id)
    \/ \E q \in qs, agent \in as, id \in ids : RetrieveByCue(q, agent, id)
    \/ \E m \in ms : Forget(m)
    \/ \E agent \in as \cup {NoId} : ForgetAll(agent)
    \/ \E q \in qs : disable_cue(q)
    \/ \E q \in qs : enable_cue(q)

\* a store built without a ledger
NextMemory == StoreOps({FALSE}, MemIds, MemAgents, CueIds, {NoId})

\* the ledger as the callers of a wired store drive it: one request id, for one agent
MemRequestKinds == {"memory_store", "memory_retrieve"}
NextLedger ==
    \/ \E kind \in MemRequestKinds : RequestConsent("c1", kind, "a1", NoExpiry)
    \/ GrantConsent("c1")
    \/ RevokeConsent("c1")

\* a store built with the ledger, holding one memory under one cue
NextWiredMemory ==
    \/ StoreOps({TRUE}, {"m1"}, MemAgents, {"q1"}, MemConsentIds)
    \/ NextLedger

(***************************************************************************)
(* DualMemory.  A receipt is modelled by its symbols and by the content    *)
(* its handle is the hash of; the receipts' times follow their order in    *)
(* the index.                                                              *)
(***************************************************************************)
thread_max_turns == 50

\* the symbol sets, contents and texts DualMemory is driven with
SymbolSets == {{}, {"s1"}, {"s1", "s2"}}
Contents == {"note"}
TurnTexts == {"hi"}

\* record_turn and anchor_opt_in stop being called after this many calls each
MaxTurns == 2
MaxAnchors == 3

\* `if not allow_anchor or not symbols: return None`
AnchorableM(symbols, allow_anchor) == allow_anchor
Anchorable(symbols, allow_anchor) == allow_anchor /\ symbols /= {}

\* DualMemory.record_turn
record_turn(text, symbols) ==
    /\ Len(thread) < MaxTurns
    /\ thread' = IF Len(thread) >= thread_max_turns
                 THEN Append(Tail(thread), [text |-> text, symbols |-> symbols])
                 ELSE Append(thread, [text |-> text, symbols |-> symbols])
    /\ dmResult' = [op |-> "record_turn", symbols |-> symbols, allow_anchor |-> FALSE,
                    returned |-> FALSE, indexBefore |-> index]
    /\ UNCHANGED <<index, OthersOfDual>>

\* DualMemory.anchor_opt_in
anchor_opt_in(symbols, content, allow_anchor) ==
    /\ Len(index) < MaxAnchors
    /\ index' = IF Anchorable(symbols, allow_anchor)
                THEN Append(index, [symbols |-> symbols, handle |-> content])
                ELSE index
    /\ dmResult' = [op |-> "anchor_opt_in", symbols |-> symbols,
                    allow_anchor |-> allow_anchor,
                    returned |-> Anchorable(symbols, allow_anchor),
                    indexBefore |-> index]
    /\ UNCHANGED <<thread, OthersOfDual>>

\* DualMemory.recall: the positions of the receipts that hold every queried symbol
recall(symbol_query) == {i \in DOMAIN index : symbol_query \subseteq index[i].symbols}

InitDual ==
    /\ thread = <<>>
    /\ index = <<>>
    /\ dmResult = [op |-> "init", symbols |-> {}, allow_anchor |-> FALSE,
                   returned |-> FALSE, indexBefore |-> <<>>]

NextDual ==
    \/ \E text \in TurnTexts, symbols \in SymbolSets : record_turn(text, symbols)
    \/ \E symbols \in SymbolSets, content \in Contents, allow_anchor \in BOOLEAN :
           anchor_opt_in(symbols, content, allow_anchor)

Threads == {1, 2}

InitRoles ==
    /\ active = {}
    /\ load = 0
    /\ actResult = [op |-> "init", key |-> "", consent |-> FALSE, battery |-> 0,
                    ok |-> TRUE, reasons |-> NoReasons, list |-> <<>>,
                    preActive |-> {}, preLoad |-> 0]

InitThreads ==
    /\ tpc = [t \in Threads |-> "idle"]
    /\ tcall = [t \in Threads |-> [key |-> "", consent |-> FALSE, battery |-> 0]]
    /\ treasons = [t \in Threads |-> NoReasons]
    /\ tload = [t \in Threads |-> 0]
    /\ tok = [t \in Threads |-> FALSE]
    /\ load0 = 0

(***************************************************************************)
(* HardwareSafetyController, from its construction to its shutdown.  The   *)
(* clock counts ticks of a quarter of a second.  _last_heartbeat is kept   *)
(* as its age, time.time() - self._last_heartbeat, which is all the code   *)
(* reads of it; the age stops counting once it is past the timeout.  The   *)
(* watchdog is a second thread: its loop and the caller's reset are taken  *)
(* one shared read or write at a time.                                     *)
(***************************************************************************)
\* HardwareConfig.watchdog_timeout, in ticks (0.5 s, as the unit tests set it)
watchdog_timeout == 2
AgeCap == watchdog_timeout + 1
Older(age) == IF age < AgeCap THEN age + 1 ELSE age

\* `elapsed > self.config.watchdog_timeout`
TimedOutM(age) == FALSE
TimedOut(age) == age > watchdog_timeout

\* what trigger_warning leaves in self.state
StateAfterWarning(st) == "warning"

HResult(op, result) == [op |-> op, result |-> result, stateBefore |-> hstate]

\* HardwareSafetyController.trigger_emergency_stop, called by a caller
trigger_emergency_stop ==
    /\ mpc = "idle"
    /\ hstate' = "emergency"
    /\ everEmergency' = TRUE
    /\ callerTriggered' = TRUE
    /\ hResult' = HResult("trigger_emergency_stop", TRUE)
    /\ UNCHANGED <<watchdog_active, beat_age, wpc, mpc, silence, untimely,
                   OthersOfHardware>>

\* HardwareSafetyController.trigger_warning
trigger_warning ==
    /\ mpc = "idle"
    /\ hstate' = StateAfterWarning(hstate)
    /\ callerTriggered' = TRUE
    /\ hResult' = HResult("trigger_warning", TRUE)
    /\ UNCHANGED <<watchdog_active, beat_age, wpc, mpc, silence, everEmergency,
                   untimely, OthersOfHardware>>

\* HardwareSafetyController.reset: the test of self.state
ResetBegin ==
    /\ mpc = "idle"
    /\ IF hstate = "emergency"
       THEN /\ hResult' = HResult("reset", FALSE)
            /\ UNCHANGED mpc
       ELSE /\ mpc' = "reset"
            /\ UNCHANGED hResult
    /\ UNCHANGED <<hstate, watchdog_active, beat_age, wpc, silence, everEmergency,
                   callerTriggered, untimely, OthersOfHardware>>

\* HardwareSafetyController.reset: the writes of self.state and _last_heartbeat
ResetFinish ==
    /\ mpc = "reset"
    /\ hstate' = "enabled"
    /\ beat_age' = 0
    /\ mpc' = "idle"
    /\ hResult' = HResult("reset", TRUE)
    /\ UNCHANGED <<watchdog_active, wpc, silence, everEmergency, callerTriggered,
                   untimely, OthersOfHardware>>

\* HardwareSafetyController.heartbeat
heartbeat ==
    /\ mpc = "idle"
    /\ beat_age' = 0
    /\ silence' = 0
    /\ hResult' = HResult("heartbeat", TRUE)
    /\ UNCHANGED <<hstate, watchdog_active, wpc, mpc, everEmergency, callerTriggered,
                   untimely, OthersOfHardware>>

\* _watchdog_loop: the thread wakes and finds the heartbeat overdue
WatchdogCheck ==
    /\ wpc = "loop"
    /\ watchdog_active
    /\ TimedOut(beat_age)
    /\ wpc' = "trigger"
    /\ UNCHANGED <<hstate, watchdog_active, beat_age, mpc, hResult, silence,
                   everEmergency, callerTriggered, untimely, OthersOfHardware>>

\* _watchdog_loop: self.trigger_emergency_stop("Watchdog timeout")
WatchdogTrigger ==
    /\ wpc = "trigger"
    /\ hstate' = "emergency"
    /\ everEmergency' = TRUE
    /\ wpc' = "stop"
    /\ UNCHANGED <<watchdog_active, beat_age, mpc, hResult, silence, callerTriggered,
                   untimely, OthersOfHardware>>

\* _watchdog_loop: self._watchdog_active = False, and the loop ends
WatchdogStop ==
    /\ wpc = "stop"
    /\ watchdog_active' = FALSE
    /\ wpc' = "done"
    /\ UNCHANGED <<hstate, beat_age, mpc, hResult, silence, everEmergency,
                   callerTriggered, untimely, OthersOfHardware>>

\* a tick passes
HardwareTick ==
    /\ beat_age' = Older(beat_age)
    /\ silence' = Older(silence)
    /\ untimely' = (untimely \/ silence + 1 >= watchdog_timeout)
    /\ beat_age' /= beat_age \/ silence' /= silence \/ untimely' /= untimely
    /\ UNCHANGED <<hstate, watchdog_active, wpc, mpc, hResult, everEmergency,
                   callerTriggered, OthersOfHardware>>

\* HardwareSafetyController(config): ENABLED, the watchdog started
InitHardware ==
    /\ hstate = "enabled"
    /\ watchdog_active = TRUE
    /\ beat_age = 0
    /\ wpc = "loop"
    /\ mpc = "idle"
    /\ hResult = [op |-> "init", result |-> TRUE, stateBefore |-> "enabled"]
    /\ silence = 0
    /\ everEmergency = FALSE
    /\ callerTriggered = FALSE
    /\ untimely = FALSE

WatchdogThread == WatchdogCheck \/ WatchdogTrigger \/ WatchdogStop

NextHardware ==
    \/ trigger_emergency_stop
    \/ trigger_warning
    \/ ResetBegin
    \/ ResetFinish
    \/ heartbeat
    \/ WatchdogThread
    \/ HardwareTick

(***************************************************************************)
(* Agent built with a ConsentManager and no FatigueTracker.                *)
(***************************************************************************)

\* the agent id the wired Agent is built with
WiredAgent == "a1"

\* Role objects handed to assign_role: one that requires consent, one that does not
WiredRoles ==
    [guarded |-> [permitted_actions |-> {"x"}, requires_consent |-> TRUE],
     open    |-> [permitted_actions |-> {"x", "y"}, requires_consent |-> FALSE]]
WiredRoleIds == DOMAIN WiredRoles
\* current_role = None
Unassigned == "<None>"
WiredActions == {"x", "y"}

\* the kinds the callers of a wired Agent request consent for, one request id
AgentRequestKinds == {"action", "role_assignment"}
AgentConsentIds == {"c1"}
AgentCheckIds == AgentConsentIds \cup {NoId}

\* the history of the wired Agent stops growing here
MaxHistory == 1

\* `if role.requires_consent and self._consent_manager` of assign_role
ConsentNeededM(role) == FALSE
ConsentNeeded(role) == WiredRoles[role].requires_consent

AResult(op, result, role, action, id) ==
    [op |-> op, result |-> result, role |-> role, action |-> action, consent_id |-> id,
     roleBefore |-> wagent.current_role]

\* Agent.assign_role
WAssignRole(role, id) ==
    LET ok == ConsentNeeded(role) => CheckValue(WiredAgent, "role_assignment", id) IN
    /\ consents' = IF ConsentNeeded(role) THEN ConsentsAfterCheck(id) ELSE consents
    /\ wagent' = IF ok THEN [wagent EXCEPT !.current_role = role] ELSE wagent
    /\ aResult' = AResult("assign_role", ok, role, "", id)
    /\ UNCHANGED <<granted_scopes, cnow, everRequested, cResult, OthersOfAgent>>

\* Agent.release_role
WReleaseRole ==
    /\ wagent' = [wagent EXCEPT !.current_role = Unassigned]
    /\ aResult' = AResult("release_role", wagent.current_role /= Unassigned, "", "", NoId)
    /\ UNCHANGED <<consentVars, OthersOfAgent>>

\* Agent.deactivate
WDeactivate ==
    /\ wagent' = [wagent EXCEPT !.is_active = FALSE, !.current_role = Unassigned]
    /\ aResult' = AResult("deactivate", TRUE, "", "", NoId)
    /\ UNCHANGED <<consentVars, OthersOfAgent>>

\* Agent.activate
WActivate ==
    /\ wagent' = [wagent EXCEPT !.is_active = TRUE]
    /\ aResult' = AResult("activate", TRUE, "", "", NoId)
    /\ UNCHANGED <<consentVars, OthersOfAgent>>

\* what Agent.can_perform_action returns
WCanPerform(action) ==
    /\ wagent.is_active
    /\ wagent.current_role /= Unassigned
    /\ action \in WiredRoles[wagent.current_role].permitted_actions

\* Agent.can_perform_action
WCanPerformAction(action) ==
    /\ aResult' = AResult("can_perform_action", WCanPerform(action), "", action, NoId)
    /\ UNCHANGED <<wagent, consentVars, OthersOfAgent>>

\* `if self._consent_manager and consent_id` of perform_action
ActionConsentAsked(id) == ~Falsy(id)

\* Agent.perform_action
WPerformAction(action, id) ==
    LET asked == WCanPerform(action) /\ ActionConsentAsked(id)
        ok == /\ WCanPerform(action)
              /\ ActionConsentAsked(id) => CheckValue(WiredAgent, "action", id)
    IN
    /\ ok => Len(wagent.action_history) < MaxHistory
    /\ consents' = IF asked THEN ConsentsAfterCheck(id) ELSE consents
    /\ wagent' = IF ok THEN [wagent EXCEPT !.action_history = Append(@, action)]
                 ELSE wagent
    /\ aResult' = AResult("perform_action", ok, "", action, id)
    /\ UNCHANGED <<granted_scopes, cnow, everRequested, cResult, OthersOfAgent>>

InitAgent ==
    /\ wagent = [is_active |-> TRUE, current_role |-> Unassigned, action_history |-> <<>>]
    /\ aResult = [op |-> "init", result |-> FALSE, role |-> "", action |-> "",
                  consent_id |-> NoId, roleBefore |-> Unassigned]

\* the wired Agent and the ledger its callers drive
NextAgent ==
    \/ \E role \in WiredRoleIds, id \in AgentCheckIds : WAssignRole(role, id)
    \/ WReleaseRole
    \/ WDeactivate
    \/ WActivate
    \/ \E action \in WiredActions : WCanPerformAction(action)
    \/ \E action \in WiredActions, id \in AgentCheckIds : WPerformAction(action, id)
    \/ \E id \in AgentConsentIds, kind \in AgentRequestKinds, expires_at \in ExpiryTimes :
           RequestConsent(id, kind, WiredAgent, expires_at)
    \/ \E id \in AgentConsentIds : GrantConsent(id)
    \/ \E id \in AgentConsentIds : RevokeConsent(id)
    \/ ClearExpired
    \/ ConsentTick

Init ==
    /\ InitRoles
    /\ InitThreads
    /\ InitConsent
    /\ InitLoop
    /\ InitFatigue
    /\ InitStress
    /\ InitCoord
    /\ InitMemory
    /\ InitDual
    /\ InitHardware
    /\ InitAgent

NextRoles ==
    \/ \E key \in CallKeys, consent \in BOOLEAN, battery \in BatteryLevels :
           Activate(key, consent, battery)
    \/ DeactivateAll

\* the RoleManager driven by one caller at a time
SpecRoles == Init /\ [][NextRoles]_vars

(***************************************************************************)
(* RoleManager.activate called from two threads on one instance.  The      *)
(* method holds no lock, so a thread may be preempted between any two of   *)
(* its reads and writes of self.active and self.load:                      *)
(*   enter  lines 132-137  key lookup, consent check                       *)
(*   cap    line  138      reads self.load for the capacity check          *)
(*   excl   lines 140-146  scans self.active, battery check, `if reasons`  *)
(*   add    line  147      self.active.add(key)                            *)
(*   rd/wr  line  148      self.load += cost: a read, then a write         *)
(***************************************************************************)
TEnter(t, key, consent, battery) ==
    /\ tpc[t] = "idle"
    /\ tcall' = [tcall EXCEPT ![t] = [key |-> key, consent |-> consent, battery |-> battery]]
    /\ load0' = IF NoThreadRunning THEN load ELSE load0
    /\ IF key \notin RoleKeys
       THEN /\ tpc' = [tpc EXCEPT ![t] = "done"]
            /\ treasons' = [treasons EXCEPT ![t] = [NoReasons EXCEPT !.unknown = TRUE]]
       ELSE /\ tpc' = [tpc EXCEPT ![t] = "cap"]
            /\ treasons' = [treasons EXCEPT ![t] =
                               [NoReasons EXCEPT !.consent = ConsentMissing(key, consent)]]
    /\ tok' = [tok EXCEPT ![t] = FALSE]
    /\ UNCHANGED <<roleVars, tload, OthersOfRoles>>

TCheckCapacity(t) ==
    /\ tpc[t] = "cap"
    /\ treasons' = [treasons EXCEPT ![t].capacity = CapacityExceeded(load, tcall[t].key)]
    /\ tpc' = [tpc EXCEPT ![t] = "excl"]
    /\ UNCHANGED <<roleVars, tcall, tload, tok, load0, OthersOfRoles>>

TCheckExclusive(t) ==
    LET r == [treasons[t] EXCEPT !.exclusive = ExclusiveConflicts(active, tcall[t].key),
                                 !.battery = LowBattery(tcall[t].battery)] IN
    /\ tpc[t] = "excl"
    /\ treasons' = [treasons EXCEPT ![t] = r]
    /\ tpc' = [tpc EXCEPT ![t] = IF AnyReason(r) THEN "done" ELSE "add"]
    /\ UNCHANGED <<roleVars, tcall, tload, tok, load0, OthersOfRoles>>

TAdd(t) ==
    /\ tpc[t] = "add"
    /\ active' = active \cup {tcall[t].key}
    /\ tpc' = [tpc EXCEPT ![t] = "rd"]
    /\ UNCHANGED <<load, actResult, tcall, treasons, tload, tok, load0, OthersOfRoles>>

TReadLoad(t) ==
    /\ tpc[t] = "rd"
    /\ tload' = [tload EXCEPT ![t] = load]
    /\ tpc' = [tpc EXCEPT ![t] = "wr"]
    /\ UNCHANGED <<roleVars, tcall, treasons, tok, load0, OthersOfRoles>>

TWriteLoad(t) ==
    /\ tpc[t] = "wr"
    /\ load' = tload[t] + CANONICAL_ROLES[tcall[t].key].role_load_cost
    /\ tpc' = [tpc EXCEPT ![t] = "done"]
    /\ tok' = [tok EXCEPT ![t] = TRUE]
    /\ UNCHANGED <<active, actResult, tcall, treasons, tload, load0, OthersOfRoles>>

NextThreads ==
    \/ \E t \in Threads, key \in CallKeys : TEnter(t, key, TRUE, 100)
    \/ \E t \in Threads : TCheckCapacity(t)
    \/ \E t \in Threads : TCheckExclusive(t)
    \/ \E t \in Threads : TAdd(t)
    \/ \E t \in Threads : TReadLoad(t)
    \/ \E t \in Threads : TWriteLoad(t)

\* a sequential prefix of consented calls, then one call from each thread
NextConc ==
    \/ \E key \in CallKeys : Activate(key, TRUE, 100)
    \/ DeactivateAll
    \/ NextThreads

SpecConc == Init /\ [][NextConc]_vars

\* the consent ledger driven by one caller at a time
SpecConsent == Init /\ [][NextConsent]_vars

\* one LoopGuard observing texts at non-decreasing times
SpecLoop == Init /\ [][NextLoop]_vars

\* one FatigueTracker driven by one caller at a time, with time passing
SpecFatigue == Init /\ [][NextFatigue]_vars

\* one Coordinator with its FatigueTracker, driven by one caller at a time
SpecCoord == Init /\ [][NextCoord]_vars

\* one MemoryStore without a ledger, and one wired to the consent ledger
SpecMemory == Init /\ [][NextMemory]_vars
SpecWiredMemory == Init /\ [][NextWiredMemory]_vars

\* one DualMemory
SpecDual == Init /\ [][NextDual]_vars

\* one HardwareSafetyController: its caller, its watchdog thread and the clock;
\* the watchdog thread is scheduled again and again, and the clock does not
\* stop while a caller is inside reset
SpecHardware == Init /\ [][NextHardware]_vars
SpecHardwareLive ==
    /\ SpecHardware
    /\ WF_vars(WatchdogCheck) /\ WF_vars(WatchdogTrigger) /\ WF_vars(WatchdogStop)
    /\ WF_vars(ResetFinish)

\* the two bounded quantities side by side: a FatigueTracker and a StressEngine
\* the wired Agent
SpecAgent == Init /\ [][NextAgent]_vars

\* one Coordinator shared by two agents
SpecShared == Init /\ [][NextShared]_vars

NextBounded == NextFatigue \/ NextStress
SpecBounded == Init /\ [][NextBounded]_vars

(***************************************************************************)
(* Properties                                                              *)
(***************************************************************************)

\* C1: after any sequence of activate and deactivate_all calls, the costs of
\* the active roles sum to at most max_load.
C1_CapacityInvariant == SumCost(active) <= max_load

\* a call refused for capacity alone, with the active roles filling the capacity
C1_Witness ==
    /\ actResult.op = "activate"
    /\ actResult.reasons.capacity
    /\ actResult.reasons.exclusive = {}
    /\ SumCost(active) = max_load

\* C2: the active set never holds two roles one of which excludes the other.
C2_Exclusivity ==
    \A r1 \in active, r2 \in active :
        /\ r2 \notin CANONICAL_ROLES[r1].exclusive_with
        /\ r1 \notin CANONICAL_ROLES[r2].exclusive_with

\* a call refused for exclusivity alone, with two roles active
C2_Witness ==
    /\ actResult.op = "activate"
    /\ actResult.reasons.exclusive /= {}
    /\ ~actResult.reasons.capacity
    /\ ~actResult.reasons.consent
    /\ Cardinality(active) >= 2

\* C3: an activate call that returns false leaves self.active and self.load
\* as they were before the call.
C3_AllOrNothing ==
    (actResult.op = "activate" /\ ~actResult.ok) =>
        (active = actResult.preActive /\ load = actResult.preLoad)

\* a call that fails for several reasons at once, on a non-empty manager
C3_Witness ==
    /\ actResult.op = "activate"
    /\ ~actResult.ok
    /\ actResult.reasons.capacity
    /\ actResult.reasons.exclusive /= {}
    /\ actResult.reasons.battery
    /\ actResult.key \notin active
    /\ active /= {}

AllDone == \A t \in Threads : tpc[t] = "done"

KeysConflict(k1, k2) ==
    /\ k1 \in RoleKeys
    /\ k2 \in RoleKeys
    /\ \/ k1 \in CANONICAL_ROLES[k2].exclusive_with
       \/ k2 \in CANONICAL_ROLES[k1].exclusive_with

OnlyOneFits(k1, k2) ==
    /\ k1 \in RoleKeys
    /\ k2 \in RoleKeys
    /\ load0 + CANONICAL_ROLES[k1].role_load_cost
             + CANONICAL_ROLES[k2].role_load_cost > max_load

CommittedCost(t) == IF tok[t] THEN CANONICAL_ROLES[tcall[t].key].role_load_cost ELSE 0

\* C4: two concurrent activate calls are serialized: when only one of the two
\* roles fits, or the two exclude each other, at most one call returns true,
\* and the load ends at its starting value plus the cost of every call that
\* returned true (no lost update).
C4_Serialized ==
    AllDone =>
        /\ (KeysConflict(tcall[1].key, tcall[2].key) \/ OnlyOneFits(tcall[1].key, tcall[2].key))
               => ~(tok[1] /\ tok[2])
        /\ load = load0 + CommittedCost(1) + CommittedCost(2)

\* C5: consent defaults to denial: for a requester and kind never requested,
\* check_consent returns false without an id and with an id that has no
\* record; and with a non-empty id that has no record it returns false for
\* any requester and kind.
NeverRequested(requester, kind) == Scope(requester, kind) \notin everRequested

C5_DefaultDenial ==
    cResult.op = "check" =>
        /\ (NeverRequested(cResult.requester, cResult.kind)
                /\ (Falsy(cResult.id) \/ ~HasRecord(cResult.id)))
               => ~cResult.result
        /\ (~Falsy(cResult.id) /\ ~HasRecord(cResult.id)) => ~cResult.result

\* a check for a pair never requested, made while another pair holds a grant
C5_Witness ==
    /\ cResult.op = "check"
    /\ NeverRequested(cResult.requester, cResult.kind)
    /\ Falsy(cResult.id)
    /\ ~cResult.result
    /\ granted_scopes /= {}
    /\ \E id \in RequestIds : HasRecord(id) /\ consents[id].status = "granted"

C7_AfterAnyHighRisk ==
    (obs.hiBefore /= -1 /\ obs.t < obs.hiBefore + cooldown_s) => obs.mode = "deescalate"

\* C7 as amended: once an observe call has returned risk >= 0.75 outside an
\* active cooldown, and so started one, every later observe call made less
\* than cooldown_s seconds after it returns deescalate.
C7_AfterTrigger ==
    (obs.trigBefore /= -1 /\ obs.t < obs.trigBefore + cooldown_s) => obs.mode = "deescalate"

\* a later call, inside the cooldown, whose own risk is below the threshold
C7_Witness ==
    /\ obs.trigBefore /= -1
    /\ obs.t > obs.trigBefore
    /\ obs.t < obs.trigBefore + cooldown_s
    /\ obs.raw < RiskHigh
    /\ obs.mode = "deescalate"

\* C8: every registered agent's energy stays within [0, 100] and every role's
\* stress value sigma stays within [0, 1], whatever sequence of actions, rests
\* and updates occurs.
C8_Bounded ==
    /\ \A a \in FatigueAgents :
           Registered(a) => fstates[a].energy >= 0 /\ fstates[a].energy <= FullEnergy
    /\ \A k \in RoleKeys : sigma[k] >= 0 /\ sigma[k] <= SigmaOne

\* an agent spent down to the floor, while stepping has driven one role's
\* stress to the ceiling and left another at the floor
C8_Witness ==
    /\ \E a \in FatigueAgents :
           Registered(a) /\ fstates[a].energy = 0 /\ fstates[a].level = "exhausted"
    /\ nSteps > 0
    /\ sigma["housekeeping"] = SigmaOne
    /\ sigma["transport"] = 0

\* C9: with action cost 20 an agent at energy 100 has actions 1 to 5 admitted
\* and action 6 refused, and the refusal for exhaustion begins a rest period,
\* from which the agent recovers through rest alone.
C9_ExhaustionStartsRest ==
    (fResult.op = "record_action" /\ ~fResult.result /\ fResult.why = "exhausted")
        => /\ fstates[fResult.agent].level = "recovering"
           /\ fstates[fResult.agent].rest_started /= NoTime

\* C10: after a rest starts, no record_action returns true and can_act does not
\* return true until the minimum rest duration has elapsed since the rest
\* started and energy is at least 50.
C10_NoResumeBeforeRested ==
    (fResult.op \in {"record_action", "can_act"} /\ fResult.result
     /\ fResult.restBefore /= NoTime)
        => /\ fResult.t - fResult.restBefore >= min_rest
           /\ fResult.energyAt >= ResumeEnergy

\* C11: mandatory rest: the max_actions_before_rest-th action recorded since the
\* agent's last rest is refused and leaves the agent RECOVERING with its action
\* counter at 0, whatever energy remains; the earlier actions of the run are
\* admitted as long as the agent is neither exhausted nor recovering.
C11_MandatoryRest ==
    (fResult.op = "record_action" /\ fResult.levelAt \notin {"exhausted", "recovering"})
        => IF fResult.countBefore + 1 >= fconfig.max_actions
           THEN /\ ~fResult.result
                /\ fstates[fResult.agent].level = "recovering"
                /\ fstates[fResult.agent].actions_count = 0
                /\ fstates[fResult.agent].rest_started = fResult.t
           ELSE fResult.result

\* the fifth action of a run of five was refused and started a rest with half
\* of the energy left
C11_Witness ==
    /\ fResult.op = "record_action"
    /\ fResult.levelAt \notin {"exhausted", "recovering"}
    /\ fResult.countBefore + 1 = fconfig.max_actions
    /\ ~fResult.result
    /\ fstates[fResult.agent].level = "recovering"
    /\ fstates[fResult.agent].energy >= ResumeEnergy

\* C12: forget round trip: once forget(id), or a forget_all covering id, has
\* returned, no retrieve_by_cue returns that memory, under any cue, and
\* get_memory_count does not count it, after any sequence of register_cue,
\* store_memory, enable_cue and disable_cue calls.
C12_ForgetRoundTrip ==
    /\ \A m \in forgotten :
           /\ \A q \in CueIds : m \notin Indexed(q)
           /\ mResult.op = "retrieve_by_cue" => m \notin mResult.result
    /\ get_memory_count(NoId) <= Cardinality(MemIds \ forgotten)
    /\ mResult.op \in {"forget", "forget_all"} => mResult.result \subseteq forgotten

\* a forgotten memory is still listed in the index of an enabled cue (it was
\* stored again under other cues before it was forgotten), and a retrieval by
\* that cue did not return it
C12_Witness ==
    \E m \in forgotten :
        /\ mResult.op = "retrieve_by_cue"
        /\ CueKnown(mResult.cue_id)
        /\ cues[mResult.cue_id].enabled
        /\ m \in cue_index[mResult.cue_id]
        /\ m \notin mResult.result

\* C13: anchor_opt_in adds an anchor and returns it only when allow_anchor is
\* true and the tag set is non-empty; otherwise it returns nothing and leaves
\* the index unchanged; so every anchor in the index has a non-empty tag set.
C13_AnchorNeedsOptInAndTags ==
    /\ dmResult.op = "anchor_opt_in" =>
           /\ dmResult.returned <=> (dmResult.allow_anchor /\ dmResult.symbols /= {})
           /\ dmResult.returned =>
                  /\ Len(index) = Len(dmResult.indexBefore) + 1
                  /\ SubSeq(index, 1, Len(dmResult.indexBefore)) = dmResult.indexBefore
                  /\ index[Len(index)].symbols = dmResult.symbols
           /\ ~dmResult.returned => index = dmResult.indexBefore
    /\ \A i \in DOMAIN index : index[i].symbols /= {}

\* an empty tag set was refused with the allow flag set, on an index that
\* already holds an anchor
C13_Witness ==
    /\ dmResult.op = "anchor_opt_in"
    /\ dmResult.allow_anchor
    /\ dmResult.symbols = {}
    /\ ~dmResult.returned
    /\ Len(index) > 0

\* C14: consent operations are idempotent: grant_consent on an already-granted
\* record and revoke_consent on an already-revoked record return what the first
\* call returned and change no record status and no entry of the granted-scope
\* set; a repeated clear_expired with no time elapsed changes no state.
C14_Idempotent ==
    [][/\ (cResult'.op = "grant" /\ HasRecord(cResult'.id)
           /\ consents[cResult'.id].status = "granted")
              => (cResult'.result /\ consents' = consents
                  /\ granted_scopes' = granted_scopes)
       /\ (cResult'.op = "revoke" /\ cResult.op = "revoke" /\ cResult'.id = cResult.id
           /\ cResult.result)
              => (cResult'.result /\ consents' = consents
                  /\ granted_scopes' = granted_scopes)
       /\ (cResult'.op = "clear_expired" /\ cResult.op = "clear_expired"
           /\ cResult.t = cnow)
              => (consents' = consents /\ granted_scopes' = granted_scopes)
      ]_vars

\* the events of the window that carry the fingerprint of the latest observation
SameAsLast == SelectSeq(events, LAMBDA e : e.key = events[Len(events)].key)

\* the latest observation is the fourth of that fingerprint within 60 seconds
FourthInSixty ==
    /\ nObs > 0
    /\ Len(SameAsLast) >= 4
    /\ obs.t - SameAsLast[Len(SameAsLast) - 3].t <= 60

\* simple_intensity of the latest observation, against 0.55 and against 0.55 / 6
LastIntense == 20 * events[Len(events)].intensity[1] >= 11 * events[Len(events)].intensity[2]
LastCalm == 120 * events[Len(events)].intensity[1] < 11 * events[Len(events)].intensity[2]

\* a cooldown was running when the latest observation was made
CooldownWasActive == obs.trigBefore /= -1 /\ obs.t < obs.trigBefore + cooldown_s

ExclusiveEntries(l) ==
    {l[i][2] : i \in {j \in DOMAIN l : l[j][1] = "exclusive with"}}

\* the rank of a reason in the order the code makes its checks
Rank(e) ==
    IF e[1] = "consent required" THEN 1
    ELSE IF e[1] = "capacity exceeded" THEN 2
    ELSE IF e[1] = "low battery" THEN 4
    ELSE 3

\* C16: a failing activate of a known role returns one entry for each failed
\* check and no other: "consent required" iff consent was required and not
\* given, "capacity exceeded" iff the load before plus the role's cost passes
\* max_load, one "exclusive with X" for each active role X in conflict, "low
\* battery" iff the battery was under the minimum; the entries stand in that
\* order and none is repeated; an unknown role returns the single reason
\* "unknown role".
C16_AllReasonsInOrder ==
    (actResult.op = "activate" /\ ~actResult.ok) =>
        LET l == actResult.list
            k == actResult.key
            has(e) == \E i \in DOMAIN l : l[i] = <<e>>
        IN IF k \notin RoleKeys
           THEN l = << <<"unknown role", k>> >>
           ELSE /\ l /= <<>>
                /\ has("consent required") <=>
                       (CANONICAL_ROLES[k].requires_explicit_consent /\ ~actResult.consent)
                /\ has("capacity exceeded") <=>
                       (actResult.preLoad + CANONICAL_ROLES[k].role_load_cost > max_load)
                /\ has("low battery") <=> (actResult.battery < min_battery)
                /\ ExclusiveEntries(l) =
                       {a \in actResult.preActive :
                           \/ k \in CANONICAL_ROLES[a].exclusive_with
                           \/ a \in CANONICAL_ROLES[k].exclusive_with}
                /\ \A i \in DOMAIN l : Len(l[i]) = 2 <=> l[i][1] = "exclusive with"
                /\ \A i, j \in DOMAIN l :
                       i < j => /\ l[i] /= l[j]
                                /\ Rank(l[i]) <= Rank(l[j])

\* two roles are active, a third that is exclusive with one of them and does
\* not fit is refused with exactly "capacity exceeded" then "exclusive with X"
C16_Witness ==
    /\ actResult.op = "activate"
    /\ ~actResult.ok
    /\ Cardinality(actResult.preActive) = 2
    /\ \E a \in actResult.preActive :
           actResult.list = << <<"capacity exceeded">>, <<"exclusive with", a>> >>

\* C17: allowed_gestures() is never empty: with no active role it is exactly
\* the fallback gesture "hold_still_visible", otherwise it is the union of the
\* allowed gestures of the active roles, and that union is not empty.
C17_GesturesNeverEmpty ==
    /\ allowed_gestures /= {}
    /\ active = {} => allowed_gestures = {"hold_still_visible"}
    /\ active /= {} =>
           /\ \A k \in active : CANONICAL_ROLES[k].allowed_gestures \subseteq allowed_gestures
           /\ \A g \in allowed_gestures :
                  \E k \in active : g \in CANONICAL_ROLES[k].allowed_gestures

\* deactivate_all has emptied a set of two roles whose gestures differed, and
\* the fallback gesture is what is left
C17_Witness ==
    /\ actResult.op = "deactivate_all"
    /\ \E a, b \in actResult.preActive :
           CANONICAL_ROLES[a].allowed_gestures /= CANONICAL_ROLES[b].allowed_gestures
    /\ active = {}
    /\ allowed_gestures = {"hold_still_visible"}

\* C18: a record's status only moves forward along pending -> granted | denied
\* | expired: no grant, deny, revoke, check or clear_expired call moves a record
\* back to pending, and none moves a denied or expired record to granted or to
\* the other terminal status.
C18_StatusOnlyForward ==
    [][cResult'.op \in {"grant", "deny", "revoke", "check", "clear_expired"} =>
          \A id \in RequestIds :
              HasRecord(id) =>
                  /\ consents[id].status /= "pending" => consents'[id].status /= "pending"
                  /\ consents[id].status \in {"denied", "expired"} =>
                         consents'[id].status = consents[id].status
      ]_vars

\* C19: request_consent with an id that already has a record is rejected: the
\* record keeps its status, requester, kind and expiry, and the granted-scope
\* set is unchanged.
C19_DuplicateRequestRejected ==
    [][\A id \in RequestIds :
          (/\ HasRecord(id)
           /\ \E kind \in RequestKinds, requester \in Requesters, expires_at \in ExpiryTimes :
                  RequestConsent(id, kind, requester, expires_at))
              => (consents' = consents /\ granted_scopes' = granted_scopes)
      ]_vars

\* C20: with a ledger wired into the store, store_memory stores nothing (it
\* returns None and leaves the memories and the cue index as they were) unless
\* check_consent(agent, memory_store, consent_id) is true, and retrieve_by_cue
\* returns an empty list unless check_consent(agent, memory_retrieve,
\* consent_id) is true and the cue is registered and enabled.
C20_WiredStoreGated ==
    [][/\ \A m \in MemIds, agent \in MemAgents, cs \in SUBSET CueIds, id \in MemConsentIds :
              (/\ mwired
               /\ ~CheckValue(agent, "memory_store", id)
               /\ StoreMemory(m, agent, cs, id))
                  => /\ mResult'.result = {}
                     /\ memories' = memories
                     /\ cue_index' = cue_index
                     /\ \A a \in MemAgents \cup {NoId} :
                            get_memory_count(a)' = get_memory_count(a)
       /\ \A q \in CueIds, agent \in MemAgents, id \in MemConsentIds :
              (/\ mwired
               /\ \/ ~CheckValue(agent, "memory_retrieve", id)
                  \/ ~CueKnown(q)
                  \/ ~cues[q].enabled
               /\ RetrieveByCue(q, agent, id))
                  => mResult'.result = {}
      ]_vars

\* a wired store that holds a memory under an enabled cue has just refused a
\* store for want of consent
C20_Witness ==
    /\ mwired
    /\ mResult.op = "store_memory"
    /\ mResult.result = {}
    /\ ~CheckValue(mResult.agent, "memory_store", mResult.consent_id)
    /\ \E q \in CueIds : CueKnown(q) /\ cues[q].enabled /\ Indexed(q) /= {}

\* C21: the fatigue tracker is refusal-first for unknown agents: can_act and
\* record_action return false for an agent that was never registered, and
\* create no state for it.
C21_UnknownAgentRefused ==
    [][\A a \in FatigueAgents :
          (~Registered(a) /\ (FCanAct(a) \/ FRecordAction(a)))
              => (~fResult'.result /\ fstates'[a] = NoFState)
      ]_vars

\* C22: a committed fatigue consumption is final: an agent's spent energy comes
\* back, and its rest is closed, only by rest recovery or by reset_agent; no
\* other call, and not register_agent made again for a registered agent,
\* raises the energy or clears the rest.
C22_ConsumptionFinal ==
    [][\A a \in CoordAgents :
          (fstates[a] /= NoFState /\ fstates'[a] /= NoFState /\ ~FResetAgent(a))
              => /\ fstates'[a].energy > fstates[a].energy
                     => fstates'[a].energy = UpdateEnergy(fstates[a]).energy
                 /\ (fstates[a].rest_started /= NoTime /\ fstates'[a].rest_started = NoTime)
                     => UpdateEnergy(fstates[a]).rest_started = NoTime
      ]_vars

\* C23: the emergency stop is latched: once the state has been EMERGENCY, no
\* sequence of reset, heartbeat and trigger_warning calls brings the controller
\* back to ENABLED, and a reset made in EMERGENCY has returned False.
C23_EmergencyLatched ==
    /\ everEmergency => hstate /= "enabled"
    /\ (hResult.op = "reset" /\ hResult.stateBefore = "emergency") => ~hResult.result

C25_CeilingTripsBreaker ==
    [][\A a \in CoordAgents, action \in Actions :
          (escalation_levels[a] >= 5 /\ CoordinateAction(a, action))
              => /\ ~coResult'.result
                 /\ (/\ a \notin circuit_breakers
                     /\ IsRegistered(a)
                     /\ CanPerformAction(agents[a], fstates[a], action)
                     /\ ~DetectLoop(action_history, a, action))
                        => /\ a \in circuit_breakers'
                           /\ agents'[a].current_role = NoRole
                           /\ ~agents'[a].is_active
      ]_vars

\* a call made at level 5 or more passed the earlier steps and tripped the breaker
C25_Witness ==
    /\ coResult.op = "coordinate_action"
    /\ coResult.why = "circuit_breaker"
    /\ ~coResult.result
    /\ coResult.agent \in circuit_breakers
    /\ coResult.agent \notin coResult.breakersBefore
    /\ escalation_levels[coResult.agent] >= 5
    /\ agents[coResult.agent].current_role = NoRole

\* the agent's rest has just been started by the tracker
RestStartedNow(st) ==
    st /= NoFState /\ st.level = "recovering" /\ st.rest_started = fnow /\ st.actions_count = 0

\* what C26 says of a call: false is returned, the level is raised by 2 capped
\* at 10, the agent's rest is started, nothing is appended to the action log
LoopRefusal(a) ==
    /\ ~coResult'.result
    /\ escalation_levels'[a] = Min(10, escalation_levels[a] + 2)
    /\ RestStartedNow(fstates'[a])
    /\ action_history' = action_history

\* the (agent, action) pair stands at least 3 times among the last 5 entries
ThreeOfLastFive(a, action) ==
    Cardinality({i \in DOMAIN action_history :
                    /\ i > Len(action_history) - 5
                    /\ action_history[i].agent_id = a
                    /\ action_history[i].action = action}) >= 3

\* C26 as stated: whenever the attempted pair stands at least 3 times among the
\* last 5 entries of the action log, coordinate_action returns false, raises
\* the level by 2 capped at 10, starts the agent's rest and appends nothing.
C26_LoopAlwaysEscalates ==
    [][\A a \in CoordAgents, action \in Actions :
          (ThreeOfLastFive(a, action) /\ CoordinateAction(a, action)) => LoopRefusal(a)
      ]_vars

\* C26: when the attempted pair stands at least 3 times among the last 5
\* entries of the action log and the call is not refused by an earlier step
\* (agent circuit-broken, not registered, or not permitted to perform the
\* action), coordinate_action returns false, raises the level by 2 capped at
\* 10, starts the agent's rest and appends nothing.
C26_LoopEscalates ==
    [][\A a \in CoordAgents, action \in Actions :
          (/\ ThreeOfLastFive(a, action)
           /\ a \notin circuit_breakers
           /\ IsRegistered(a)
           /\ CanPerformAction(agents[a], fstates[a], action)
           /\ CoordinateAction(a, action)) => LoopRefusal(a)
      ]_vars

\* a loop was refused at level 4 or more: the level went up and the rest began
C26_Witness ==
    /\ coResult.op = "coordinate_action"
    /\ coResult.why = "loop"
    /\ ~coResult.result
    /\ escalation_levels[coResult.agent] >= 6
    /\ RestStartedNow(fstates[coResult.agent])

\* C27: coordinate_action returns false and leaves every escalation level, the
\* action log and the circuit-broken set as they were when the agent is
\* circuit-broken, is not registered, or is not permitted to perform the action
\* (agent inactive, no role assigned, or the role's permitted set holds neither
\* the action nor the wildcard).
C27_EarlyRefusalsChangeNothing ==
    [][\A a \in CoordAgents, action \in Actions :
          (/\ \/ a \in circuit_breakers
              \/ agents[a] = NoAgent
              \/ ~agents[a].is_active
              \/ agents[a].current_role = NoRole
              \/ /\ action \notin agents[a].current_role.permitted_actions
                 /\ "*" \notin agents[a].current_role.permitted_actions
           /\ CoordinateAction(a, action))
              => /\ ~coResult'.result
                 /\ escalation_levels' = escalation_levels
                 /\ action_history' = action_history
                 /\ circuit_breakers' = circuit_breakers
      ]_vars

\* an action outside the role's permitted set was refused for an agent that
\* had a level above 0 and entries in the action log
C27_Witness ==
    /\ coResult.op = "coordinate_action"
    /\ coResult.why = "not_permitted"
    /\ ~coResult.result
    /\ coResult.action = "z"
    /\ agents[coResult.agent].is_active
    /\ agents[coResult.agent].current_role /= NoRole
    /\ escalation_levels[coResult.agent] > 0
    /\ action_history /= <<>>

\* C28: an observe call made during an active cooldown returns deescalate with
\* risk >= 0.6 and the reason stored when the cooldown was triggered, and
\* leaves the cooldown end and the stored reason as they were; the first
\* observe made at or after the cooldown end whose own risk is below 0.75
\* returns normal.
C28_StickyCooldown ==
    [][\A in \in ObserveInputs :
          Observe(in[1], in[2]) =>
              /\ lnow < cooldown_until =>
                     /\ obs'.mode = "deescalate"
                     /\ obs'.risk >= 3600
                     /\ obs'.risk >= obs'.raw
                     /\ obs'.reason = last_reason
                     /\ cooldown_until' = cooldown_until
                     /\ last_reason' = last_reason
              /\ (lnow >= cooldown_until /\ obs'.raw < 4500) => obs'.mode = "normal"
      ]_vars

\* a cooldown was triggered, a call inside it was held at deescalate, and the
\* latest call, at or after its end and under the threshold, came back normal
C28_Witness ==
    /\ obs.trigBefore /= -1
    /\ cooldown_until = obs.trigBefore + cooldown_s
    /\ obs.t >= cooldown_until
    /\ obs.raw < RiskHigh
    /\ obs.raw > 0
    /\ obs.mode = "normal"

\* C29: the memory store never holds a dangling index reference: every memory
\* id listed under a cue in the cue index names a stored memory whose own cue
\* set contains that cue.
C29_NoDanglingIndex ==
    \A q \in CueIds : \A m \in cue_index[q] : Stored(m) /\ q \in memories[m].cues

\* C30: after revoke_consent(id) on an existing record the record's status is
\* denied, check_consent(requester, kind, id) returns false, and if the record
\* was granted its (requester, kind) entry is no longer in the granted-scope
\* set; revoke_consent, grant_consent and deny_consent on an unknown id return
\* false and change nothing.
C30_RevokeDenies ==
    [][\A id \in RequestIds :
          /\ (HasRecord(id) /\ RevokeConsent(id)) =>
                 /\ cResult'.result
                 /\ consents'[id].status = "denied"
                 /\ consents'[id].status /= "granted" \/ PastExpiry(consents'[id])
                 /\ ~CheckValue(consents[id].requester, consents[id].consent_type, id)'
                 /\ consents[id].status = "granted" =>
                        <<consents[id].requester, consents[id].consent_type>>
                            \notin granted_scopes'
          /\ (~HasRecord(id) /\ (RevokeConsent(id) \/ GrantConsent(id) \/ DenyConsent(id))) =>
                 /\ ~cResult'.result
                 /\ consents' = consents
                 /\ granted_scopes' = granted_scopes
      ]_vars

\* the latest call revoked a record whose scope entry another record, still
\* granted, shares: the entry is out of the set
C30_Witness ==
    /\ cResult.op = "revoke"
    /\ cResult.result
    /\ consents[cResult.id].status = "denied"
    /\ \E id2 \in RequestIds \ {cResult.id} :
           /\ HasRecord(id2)
           /\ consents[id2].status = "granted"
           /\ consents[id2].requester = consents[cResult.id].requester
           /\ consents[id2].consent_type = consents[cResult.id].consent_type
    /\ Scope(consents[cResult.id].requester, consents[cResult.id].consent_type)
           \notin granted_scopes

\* C31: recovery is proportional to elapsed rest time: while an agent is
\* recovering, its energy at time t is min(100, energy at rest start +
\* (t - rest start) * recovery_rate), however many times can_act, get_state or
\* record_action were called for it in between.  The energy at a time t is then
\* one value: a get_state that follows another call for the same recovering
\* agent at the same time leaves the energy as that call left it.
C31_RecoveryIndependentOfCalls ==
    [][\A a \in FatigueAgents :
          (/\ FGetState(a)
           /\ Registered(a)
           /\ fstates[a].level = "recovering"
           /\ fstates[a].rest_started /= NoTime
           /\ fResult.agent = a
           /\ fResult.op \in {"can_act", "get_state", "record_action"}
           /\ fResult.t = fnow)
              => fstates'[a].energy = fstates[a].energy]_vars

\* C32: only admitted actions spend budget: a record_action call that returns
\* false leaves the agent's energy undiminished, and every call that returns
\* true subtracts exactly the fixed action cost (floored at 0) from the energy
\* the agent has once its recovery is credited.
C32_OnlyAdmittedActionsSpend ==
    [][\A a \in FatigueAgents :
          FRecordAction(a) =>
              LET st0 == IF Registered(a) THEN fstates[a] ELSE FreshState
                  had == UpdateEnergy(st0).energy
              IN IF fResult'.result
                 THEN fstates'[a].energy = Max(0, had - fconfig.cost)
                 ELSE fstates'[a].energy >= had]_vars

\* C33: with a consent manager wired into the Agent, assign_role of a role that
\* requires consent succeeds only when check_consent(agent, role-assignment,
\* consent_id) is true; on refusal it returns false and the agent's current
\* role is unchanged.
C33_AssignRoleGated ==
    [][\A role \in WiredRoleIds, id \in AgentCheckIds :
          (WAssignRole(role, id) /\ WiredRoles[role].requires_consent) =>
              IF CheckValue(WiredAgent, "role_assignment", id)
              THEN aResult'.result /\ wagent'.current_role = role
              ELSE ~aResult'.result /\ wagent'.current_role = wagent.current_role]_vars

\* an agent holding the open role was refused the guarded one and kept the open role
C33_Witness ==
    /\ aResult.op = "assign_role"
    /\ aResult.role = "guarded"
    /\ ~aResult.result
    /\ aResult.roleBefore = "open"
    /\ wagent.current_role = "open"

\* an action consent for the wired agent is currently granted: its scope is in
\* the granted set, or a record of it is granted and not past its expiry
ActionConsentGranted ==
    \/ Scope(WiredAgent, "action") \in granted_scopes
    \/ \E id \in DOMAIN consents :
           /\ HasRecord(id)
           /\ consents[id].requester = WiredAgent
           /\ consents[id].consent_type = "action"
           /\ consents[id].status = "granted"
           /\ ~PastExpiry(consents[id])

\* C34: with a consent manager wired into the Agent, actions are denied by
\* default: perform_action returns true only if an action consent for that agent
\* is currently granted, and is refused when no action consent was granted,
\* including when no consent id is supplied.
C34_ActionsDeniedByDefault ==
    [][\A action \in WiredActions, id \in AgentCheckIds :
          (WPerformAction(action, id) /\ aResult'.result) => ActionConsentGranted]_vars

\* C35: in every reachable Coordinator state, exactly the registered agents
\* have an escalation level, each level is an integer in [0,10], and every
\* agent in the circuit-broken set is a registered agent.
C35_LevelsOfRegisteredAgents ==
    /\ \A a \in CoordAgents :
           /\ IsRegistered(a) <=> escalation_levels[a] /= NoLevel
           /\ escalation_levels[a] /= NoLevel => escalation_levels[a] \in 0..10
    /\ \A a \in circuit_breakers : a \in CoordAgents /\ IsRegistered(a)

\* a registered agent whose level has reached 10 is in the circuit-broken set
C35_Witness ==
    \E a \in CoordAgents :
        /\ IsRegistered(a)
        /\ escalation_levels[a] = 10
        /\ a \in circuit_breakers

\* C36: a consent id is bound to its requester and kind: check_consent(requester,
\* kind, id) returns true only if the record with that id was requested by that
\* requester for that kind, so a consent granted to one agent or for one kind
\* never authorizes another agent or another kind.
C36_IdBoundToRequesterAndKind ==
    [][\A requester \in Requesters, kind \in CheckKinds, id \in RequestIds :
          (CheckConsent(requester, kind, id) /\ cResult'.result) =>
              /\ HasRecord(id)
              /\ consents[id].requester = requester
              /\ consents[id].consent_type = kind]_vars

\* the scopes for which some record is granted and not past its expiry
LiveGrantedScopes ==
    {Scope(consents[id].requester, consents[id].consent_type) :
         id \in {i \in DOMAIN consents :
                     /\ HasRecord(i)
                     /\ consents[i].status = "granted"
                     /\ ~PastExpiry(consents[i])}}

\* C37: in every reachable ledger state, (requester, kind) is in the
\* granted-scope set if and only if at least one record for that requester and
\* kind has status granted and is not past its expiry, so that the check without
\* an id is true exactly when such a record exists.
C37_ScopeSetMatchesRecords ==
    granted_scopes = LiveGrantedScopes

\* C38: after any sequence of RoleManager.activate and deactivate_all calls, load
\* equals the sum of role_load_cost over the roles in the active set; in
\* particular activating a role that is already active changes neither the
\* active set nor the load, and deactivate_all leaves an empty set with load 0.
C38_LoadIsSumOfActiveCosts ==
    load = SumCost(active)

\* C39: loop detection for an agent depends only on that agent's own actions:
\* whatever other agents' coordinate_action calls are interleaved, an agent that
\* attempts the same action more than max_repetitions (3) times in a row, with
\* no different action of its own in between, has the attempt refused as a loop.
\* Here three admitted attempts of the agent are in the history, all its records
\* are for that action, and it attempts the action again.
C39_LoopDetectionPerAgent ==
    [][\A a \in SharedAgents :
          (/\ SharedCoordinate(a)
           /\ SameIn(action_history, a, OwnAction[a]) >= 3
           /\ \A i \in DOMAIN action_history :
                  action_history[i].agent_id = a =>
                      action_history[i].action = OwnAction[a])
              => ~coResult'.result]_vars

\* a role-assignment consent for the wired agent is currently granted: its scope
\* is in the granted set, or a record of it is granted and not past its expiry
RoleConsentGranted ==
    \/ Scope(WiredAgent, "role_assignment") \in granted_scopes
    \/ \E id \in DOMAIN consents :
           /\ HasRecord(id)
           /\ consents[id].requester = WiredAgent
           /\ consents[id].consent_type = "role_assignment"
           /\ consents[id].status = "granted"
           /\ ~PastExpiry(consents[id])

\* C40: revocation takes effect on roles: an agent holds a consent-requiring
\* role only while a role-assignment consent for it is granted, so after that
\* consent is revoked or has expired, can_perform_action no longer admits
\* actions under the role assigned with it.  The ledger here has been asked for
\* role-assignment consents only.
C40_RevocationStopsRole ==
    [][\A action \in WiredActions :
          (/\ WCanPerformAction(action)
           /\ everRequested \subseteq {Scope(WiredAgent, "role_assignment")}
           /\ wagent.current_role /= Unassigned
           /\ WiredRoles[wagent.current_role].requires_consent
           /\ ~RoleConsentGranted)
              => ~aResult'.result]_vars

====
